---- MODULE Spec2Model ----
(***************************************************************************)
(* A model of the trade risk-control and execution-simulation core of      *)
(* hf_sentiment_engine: the ExecutionSimulator fill loop                   *)
(* (src/core/oms_simulator.py), the PositionLedger                         *)
(* (src/core/position_ledger.py), the RiskEngine (src/risk/engine.py) and   *)
(* the ComplianceEngine (src/core/compliance_engine.py).                   *)
(*                                                                         *)
(* Numbers.  The code computes in binary floating point.  The model        *)
(* computes exactly: order and fill quantities are integers counted in     *)
(* units of 1/QtyScale (halving a float is exact, so the fill loop is      *)
(* modelled without rounding), executed prices are integers counted in     *)
(* units of 1/PxScale, and the ledger's and the risk engine's quotients    *)
(* are exact rationals.  Float rounding is outside the model.              *)
(***************************************************************************)
EXTENDS Integers, Sequences, FiniteSets, TLC

(***************************************************************************)
(* Bounds of the model.                                                    *)
(***************************************************************************)
\* the largest max_partials a configuration carries
MaxPartials == 2
\* execute calls per simulator instance
MaxOrders == 2
\* apply_fill calls per ledger
MaxFills == 3
\* positions handed to check_limits
MaxPositions == 2
\* the size of the stand-in random generator's state space
RngMod == 8
\* order dicts handed to one evaluate_orders call
MaxCompOrders == 2
\* fill dicts handed to one posttrade_metrics call
MaxTcaFills == 2

(***************************************************************************)
(* Program constants.                                                      *)
(***************************************************************************)
\* _apply_slippage: bump = px * slippage_bps / 10_000
PxScale == 10000
\* VenueWeights default {"LIT": 0.7, "DARK": 0.3}, in tenths
LitWeight == 7
DarkWeight == 3
\* PositionLedger(starting_cash=100000.0)
StartingCash == 100000

VARIABLES
    rng,        \* the state of the process-global generator of module random
    simCfg,     \* simCfg[i]: the ExecutionConfig of simulator i (self.config)
    simPc,      \* simPc[i]: where simulator i is: "none", "idle", "loop", "status"
    simCur,     \* simCur[i]: the locals of the running execute call
    simHist,    \* simHist[i]: the (order, fills) pairs execute has returned
    simAudit,   \* simAudit[i][k]: did the k-th execute call's audit lines reach the files
    simTca,     \* simTca[i][k]: the PostTradeMetrics the k-th execute call computed
    ledgers,    \* ledgers[l]: cash, positions and realized_pnl of PositionLedger l
    applied,    \* applied[l]: the fills apply_fill was called with, in order
    snaps,      \* snaps[l]: the state of ledger l after each of those calls
    riskIn,     \* the arguments and the configuration of a check_limits call
    riskOut,    \* what check_limits returned (<<>> before the call)
    tcaIn,      \* the arguments of a pretrade_estimate or posttrade_metrics call
    tcaOut,     \* what that call returned (<<>> before the call)
    compCfg,    \* the ComplianceConfig of the compliance engine (<<>>: none built)
    compIn,     \* the arguments of the last evaluate_orders call
    compOut,    \* what that call returned
    compAudit,  \* the lines of the compliance audit file
    auditDirs,  \* the audit directories that exist
    auditWritable, \* can the audit files be appended to at present
    pipe        \* the position and the locals of a run_equity_pipeline call

simVars == <<rng, simCfg, simPc, simCur, simHist, simAudit, simTca>>

ledgerVars == <<ledgers, applied, snaps>>

riskVars == <<riskIn, riskOut, tcaIn, tcaOut>>

compVars == <<compCfg, compIn, compOut, compAudit>>

vars == <<rng, simCfg, simPc, simCur, simHist, simAudit, simTca, ledgers, applied, snaps,
         riskIn, riskOut, tcaIn, tcaOut, compCfg, compIn, compOut, compAudit, auditDirs,
         auditWritable, pipe>>

(***************************************************************************)
(* Helpers.                                                                *)
(***************************************************************************)
RECURSIVE SumQty(_)
SumQty(fs) == IF fs = <<>> THEN 0 ELSE fs[1].qty + SumQty(Tail(fs))

(***************************************************************************)
(* The random module.  The Mersenne Twister is library code; what the      *)
(* simulator relies on is that it is one process-wide generator, that      *)
(* seed(s) sets its state as a function of s alone, and that each draw     *)
(* advances it deterministically.  A small congruential generator stands   *)
(* in for it; a draw u stands for the float u / RngMod in [0, 1).          *)
(***************************************************************************)
RngSeed(s) == s % RngMod

RngNext(g) == (5 * g + 3) % RngMod

(***************************************************************************)
(* Inputs.                                                                 *)
(***************************************************************************)
Sims == {1, 2}
Seeds == {1, 2}
\* config.seed: <<>> is None, <<s>> is the integer s
SeedOpts == {<<>>} \cup {<<s>> : s \in Seeds}
\* partial_fill_prob as a threshold on a draw: 0, 1/2 and 1
Probs == {0, RngMod \div 2, RngMod}
\* one quantity unit of an order, in units of 1/QtyScale
QtyScale == 2 ^ MaxPartials
\* order.qty: negative, zero and positive (tests use 10; main.py uses 1.0)
Qtys == {-1 * QtyScale, 0, 2 * QtyScale}
Sides == {"BUY", "SELL"}
SimTickers == {"AAPL"}
RefPrices == {100}
SlippageBps == {5}

Configs ==
    [slippage_bps : SlippageBps, partial_fill_prob : Probs,
     max_partials : 0..MaxPartials, venue : {"SIM"},
     route_venues : BOOLEAN, seed : SeedOpts]

Orders ==
    [ticker : SimTickers, side : Sides, qty : Qtys, px : RefPrices]

NoCur == [order |-> <<>>, remaining |-> 0, partials |-> 0, fills |-> <<>>]

\* no pipeline run is in progress
NoPipe ==
    [pc |-> "off", ticker |-> "", simulate_execution |-> FALSE, cost_bps |-> 0,
     pms_rebalance |-> FALSE, orders |-> <<>>, proposal |-> <<>>, post |-> <<>>]

\* a constructor that leaves the generator as it finds it
RngAfterInitUnseeded(cfg, g) == g

(***************************************************************************)
(* ExecutionSimulator.__init__: random.seed(config.seed) unless the seed   *)
(* is None.  The generator it seeds is the module's, not the instance's.   *)
(***************************************************************************)
RngAfterInit(cfg, g) ==
    IF cfg.seed # <<>> THEN RngSeed(cfg.seed[1]) ELSE g

\* a slippage that moves the price up on both sides
ApplySlippageUp(px, side, slippage_bps) == px * PxScale + px * slippage_bps

(***************************************************************************)
(* ExecutionSimulator._apply_slippage, in units of 1/PxScale.              *)
(***************************************************************************)
ApplySlippage(px, side, slippage_bps) ==
    LET bump == px * slippage_bps
    IN  IF side = "BUY" THEN px * PxScale + bump ELSE px * PxScale - bump

(***************************************************************************)
(* random.choices(venues, weights, k=1)[0] over the default venue table:   *)
(* one draw u, the first venue whose cumulative weight exceeds u * total.  *)
(***************************************************************************)
ChooseVenue(u) ==
    IF u * (LitWeight + DarkWeight) < LitWeight * RngMod THEN "LIT" ELSE "DARK"

\* an iteration that never takes the break after the last allowed partial
LoopBodyNoBreak(cfg, order, c, g) ==
    LET draws    == c.partials < cfg.max_partials
        g1       == IF draws THEN RngNext(g) ELSE g
        partial  == draws /\ g1 < cfg.partial_fill_prob
        fill_qty == IF partial THEN c.remaining \div 2 ELSE c.remaining
        partials == IF partial THEN c.partials + 1 ELSE c.partials
        g2       == IF cfg.route_venues THEN RngNext(g1) ELSE g1
        venue    == IF cfg.route_venues THEN ChooseVenue(g2) ELSE cfg.venue
        fill     == [order_id |-> order.order_id,
                     fill_id |-> <<order.order_id, Len(c.fills) + 1>>,
                     ticker |-> order.ticker, side |-> order.side,
                     qty |-> fill_qty,
                     px |-> ApplySlippage(order.px, order.side, cfg.slippage_bps),
                     venue |-> venue, slippage_bps |-> cfg.slippage_bps]
    IN  [cur |-> [order |-> order, remaining |-> c.remaining - fill_qty,
                  partials |-> partials, fills |-> Append(c.fills, fill)],
         rng |-> g2,
         brk |-> FALSE]

(***************************************************************************)
(* One iteration of the while loop of execute (lines 63-89), as a function *)
(* of the configuration, the order, the locals and the generator state.    *)
(* random.random() is called only when partials < max_partials (the `and`  *)
(* short-circuits); random.choices only when route_venues is set.          *)
(***************************************************************************)
LoopBody(cfg, order, c, g) ==
    LET draws    == c.partials < cfg.max_partials
        g1       == IF draws THEN RngNext(g) ELSE g
        partial  == draws /\ g1 < cfg.partial_fill_prob
        fill_qty == IF partial THEN c.remaining \div 2 ELSE c.remaining
        partials == IF partial THEN c.partials + 1 ELSE c.partials
        g2       == IF cfg.route_venues THEN RngNext(g1) ELSE g1
        venue    == IF cfg.route_venues THEN ChooseVenue(g2) ELSE cfg.venue
        fill     == [order_id |-> order.order_id,
                     fill_id |-> <<order.order_id, Len(c.fills) + 1>>,
                     ticker |-> order.ticker, side |-> order.side,
                     qty |-> fill_qty,
                     px |-> ApplySlippage(order.px, order.side, cfg.slippage_bps),
                     venue |-> venue, slippage_bps |-> cfg.slippage_bps]
    IN  [cur |-> [order |-> order, remaining |-> c.remaining - fill_qty,
                  partials |-> partials, fills |-> Append(c.fills, fill)],
         rng |-> g2,
         brk |-> partials >= cfg.max_partials]

\* a status assignment that cancels where the code rejects
StatusOfCanceled(filled_qty, qty) ==
    IF filled_qty = qty THEN "FILLED"
    ELSE IF filled_qty = 0 THEN "CANCELED"
    ELSE "PARTIALLY_FILLED"

(***************************************************************************)
(* The status assignment that follows the loop (lines 91-97).              *)
(***************************************************************************)
StatusOf(filled_qty, qty) ==
    IF filled_qty = qty THEN "FILLED"
    ELSE IF filled_qty = 0 THEN "REJECTED"
    ELSE "PARTIALLY_FILLED"

(***************************************************************************)
(* The whole while loop, from the locals c and the generator state g.      *)
(***************************************************************************)
RECURSIVE FillLoop(_, _, _, _)
FillLoop(cfg, order, c, g) ==
    IF c.remaining > 0
    THEN LET r == LoopBody(cfg, order, c, g)
         IN  IF r.brk THEN [cur |-> r.cur, rng |-> r.rng]
             ELSE FillLoop(cfg, order, r.cur, r.rng)
    ELSE [cur |-> c, rng |-> g]

(***************************************************************************)
(* What a simulator returns for a sequence of orders when nothing else     *)
(* touches the generator between its construction with an integer seed and *)
(* its last draw: the run of a simulator "alone with its own seed".        *)
(***************************************************************************)
RECURSIVE AloneFrom(_, _, _)
AloneFrom(cfg, orders, g) ==
    IF orders = <<>> THEN <<>>
    ELSE LET o == orders[1]
             r == FillLoop(cfg, o, [order |-> o, remaining |-> o.qty,
                                    partials |-> 0, fills |-> <<>>], g)
             st == StatusOf(SumQty(r.cur.fills), o.qty)
         IN  <<[order |-> [o EXCEPT !.status = st], fills |-> r.cur.fills]>>
             \o AloneFrom(cfg, Tail(orders), r.rng)

AloneRun(cfg, orders) == AloneFrom(cfg, orders, RngSeed(cfg.seed[1]))

(***************************************************************************)
(* Exact rationals <<n, d>>, d > 0, in lowest terms: the values of the     *)
(* ledger's floats (cash, qty, avg_px, realized_pnl).                      *)
(***************************************************************************)
Abs(x) == IF x < 0 THEN -x ELSE x

RECURSIVE GCD(_, _)
GCD(a, b) == IF b = 0 THEN a ELSE GCD(b, a % b)

RNorm(n, d) ==
    LET g == GCD(Abs(n), Abs(d))
        sg == IF d < 0 THEN -1 ELSE 1
    IN  <<(sg * n) \div g, (sg * d) \div g>>

RInt(k) == <<k, 1>>
RAdd(a, b) == RNorm(a[1] * b[2] + b[1] * a[2], a[2] * b[2])
RSub(a, b) == RNorm(a[1] * b[2] - b[1] * a[2], a[2] * b[2])
RMul(a, b) == RNorm(a[1] * b[1], a[2] * b[2])
RDiv(a, b) == RNorm(a[1] * b[2], a[2] * b[1])
RLt(a, b) == a[1] * b[2] < b[1] * a[2]
RLe(a, b) == a[1] * b[2] <= b[1] * a[2]
RMin(a, b) == IF RLt(b, a) THEN b ELSE a
RZero == RInt(0)

(***************************************************************************)
(* PositionLedger (src/core/position_ledger.py).                           *)
(***************************************************************************)
Ledgers == {1, 2}
LedgerTickers == {"AAPL", "MSFT"}
FillQtys == {1, 2}
FillPrices == {10, 12}

LedgerFills ==
    [ticker : LedgerTickers, side : Sides,
     qty : {RInt(q) : q \in FillQtys}, px : {RInt(x) : x \in FillPrices}]

\* Position(): qty 0.0, avg_px 0.0
NewPosition == [qty |-> RZero, avg_px |-> RZero]

\* PositionLedger.__init__
NewLedger ==
    [cash |-> RInt(StartingCash), positions |-> <<>>, realized_pnl |-> RZero]

\* a positions dictionary that is one object for every ledger
GetPositionShared(l, ticker) ==
    IF ticker \in DOMAIN ledgers[1].positions
    THEN ledgers[1].positions[ticker]
    ELSE NewPosition

\* self.positions.get(fill.ticker, Position()) of ledger l: the ledger's own
\* dictionary, and a Position made for this call when the ticker is new
GetPosition(l, ticker) ==
    IF ticker \in DOMAIN ledgers[l].positions
    THEN ledgers[l].positions[ticker]
    ELSE NewPosition

\* the average cost taken for the total cost: the division is missing
BuyPositionNoDivision(pos, fill) ==
    LET new_qty == RAdd(pos.qty, fill.qty)
        new_cost == RAdd(RMul(pos.avg_px, pos.qty), RMul(fill.px, fill.qty))
    IN  [qty |-> new_qty, avg_px |-> IF new_qty # RZero THEN new_cost ELSE RZero]

\* the BUY branch: the position after the fill (lines 28-31)
BuyPosition(pos, fill) ==
    LET new_qty == RAdd(pos.qty, fill.qty)
        new_cost == RAdd(RMul(pos.avg_px, pos.qty), RMul(fill.px, fill.qty))
    IN  [qty |-> new_qty,
         avg_px |-> IF new_qty # RZero THEN RDiv(new_cost, new_qty) ELSE RZero]

\* the SELL branch: qty_to_close = min(pos.qty, fill.qty)
QtyToClose(pos, fill) == RMin(pos.qty, fill.qty)

\* a sell that stops at flat: the excess opens no short position
SellPositionNoShort(pos, fill) ==
    [qty |-> RSub(pos.qty, RMin(pos.qty, fill.qty)), avg_px |-> pos.avg_px]

\* the SELL branch: the position after the fill (lines 36-42)
SellPosition(pos, fill) ==
    LET qty_to_close == QtyToClose(pos, fill)
        closed == RSub(pos.qty, qty_to_close)
    IN  IF RLt(qty_to_close, fill.qty)
        THEN [qty |-> RSub(closed, RSub(fill.qty, qty_to_close)),
              avg_px |-> fill.px]
        ELSE [qty |-> closed, avg_px |-> pos.avg_px]

\* the SELL branch: realized_pnl += qty_to_close * (fill.px - pos.avg_px)
RealizedGain(pos, fill) ==
    RMul(QtyToClose(pos, fill), RSub(fill.px, pos.avg_px))

\* an apply_fill whose SELL branch leaves cash as it was
AppliedToNoCredit(L, pos, fill) ==
    LET newpos == IF fill.side = "BUY" THEN BuyPosition(pos, fill)
                  ELSE SellPosition(pos, fill)
    IN  [cash |-> IF fill.side = "BUY" THEN RSub(L.cash, RMul(fill.px, fill.qty))
                  ELSE L.cash,
         realized_pnl |-> IF fill.side = "BUY" THEN L.realized_pnl
                          ELSE RAdd(L.realized_pnl, RealizedGain(pos, fill)),
         positions |-> [t \in DOMAIN L.positions \cup {fill.ticker} |->
                          IF t = fill.ticker THEN newpos ELSE L.positions[t]]]

\* apply_fill: the ledger L after the fill, pos being the fill's position
AppliedTo(L, pos, fill) ==
    LET newpos == IF fill.side = "BUY" THEN BuyPosition(pos, fill)
                  ELSE SellPosition(pos, fill)
        notional == RMul(fill.px, fill.qty)
    IN  [cash |-> IF fill.side = "BUY" THEN RSub(L.cash, notional)
                  ELSE RAdd(L.cash, notional),
         realized_pnl |-> IF fill.side = "BUY" THEN L.realized_pnl
                          ELSE RAdd(L.realized_pnl, RealizedGain(pos, fill)),
         positions |-> [t \in DOMAIN L.positions \cup {fill.ticker} |->
                          IF t = fill.ticker THEN newpos ELSE L.positions[t]]]

\* equity(marks): cash + realized_pnl + the sum over the positions of
\* qty * (marks.get(tkr, avg_px) - avg_px); marks is a function on tickers
RECURSIVE UnrealizedOver(_, _, _)
UnrealizedOver(L, marks, tickers) ==
    IF tickers = {} THEN RZero
    ELSE LET tkr == CHOOSE t \in tickers : TRUE
             pos == L.positions[tkr]
             px  == IF tkr \in DOMAIN marks THEN marks[tkr] ELSE pos.avg_px
         IN  RAdd(RMul(pos.qty, RSub(px, pos.avg_px)),
                  UnrealizedOver(L, marks, tickers \ {tkr}))

Equity(L, marks) ==
    RAdd(RAdd(L.cash, L.realized_pnl), UnrealizedOver(L, marks, DOMAIN L.positions))

\* ledger l: apply_fill(fill)
ApplyFill(l, fill) ==
    LET after == AppliedTo(ledgers[l], GetPosition(l, fill.ticker), fill)
    IN  /\ ledgers' = [ledgers EXCEPT ![l] = after]
        /\ applied' = [applied EXCEPT ![l] = Append(@, fill)]
        /\ snaps' = [snaps EXCEPT ![l] = Append(@, after)]
        /\ UNCHANGED <<simVars, riskVars, compVars, auditDirs, auditWritable, pipe>>

InitLedger ==
    /\ ledgers = [l \in Ledgers |-> NewLedger]
    /\ applied = [l \in Ledgers |-> <<>>]
    /\ snaps = [l \in Ledgers |-> <<>>]

(***************************************************************************)
(* RiskEngine (src/risk/engine.py, models.py, config.py, factors.py).      *)
(* Notionals and NAV are integers; limits, which the code writes as        *)
(* fractions (0.05, 2.0), and the quotients compared with them are exact   *)
(* rationals.  A Breach is (level, name, severity); its message, a         *)
(* formatted string of the same numbers, is left out.                      *)
(***************************************************************************)
Pct(k) == RNorm(k, 100)

TickerOf(k) == <<"AAPL", "MSFT", "SPY", "QQQ">>[k]

\* Position.notional
Notional(p) == p.qty * p.price

\* sum(...) and max(...) over a list of numbers
RECURSIVE SumSeq(_)
SumSeq(xs) == IF xs = <<>> THEN 0 ELSE xs[1] + SumSeq(Tail(xs))

RECURSIVE MaxSeq(_)
MaxSeq(xs) ==
    IF Len(xs) = 1 THEN xs[1]
    ELSE LET m == MaxSeq(Tail(xs)) IN IF xs[1] >= m THEN xs[1] ELSE m

RECURSIVE Flatten(_)
Flatten(ss) == IF ss = <<>> THEN <<>> ELSE ss[1] \o Flatten(Tail(ss))

\* gross taken as long plus the signed short notionals: the abs() is missing
ComputeExposureSignedShort(positions, nav) ==
    LET Long(p) == IF Notional(p) > 0 THEN Notional(p) ELSE 0
        Short(p) == IF Notional(p) < 0 THEN Notional(p) ELSE 0
        long == SumSeq([n \in 1..Len(positions) |-> Long(positions[n])])
        short == SumSeq([n \in 1..Len(positions) |-> Short(positions[n])])
        BetaAdj(p) == Notional(p) * p.beta
    IN  [gross |-> long + short, net |-> long - short, long |-> long,
         short |-> short, beta_adjusted_net |-> SumSeq([n \in 1..Len(positions) |-> BetaAdj(positions[n])]),
         nav |-> nav]

\* RiskEngine.compute_exposure
ComputeExposure(positions, nav) ==
    LET Long(p) == IF Notional(p) > 0 THEN Notional(p) ELSE 0
        Short(p) == IF Notional(p) < 0 THEN Abs(Notional(p)) ELSE 0
        long == SumSeq([n \in 1..Len(positions) |-> Long(positions[n])])
        short == SumSeq([n \in 1..Len(positions) |-> Short(positions[n])])
        BetaAdj(p) == Notional(p) * p.beta
    IN  [gross |-> long + short, net |-> long - short, long |-> long,
         short |-> short, beta_adjusted_net |-> SumSeq([n \in 1..Len(positions) |-> BetaAdj(positions[n])]),
         nav |-> nav]

\* a share of NAV that takes a zero NAV for one
OverNavOfOne(x, nav) == IF nav # 0 THEN RNorm(x, nav) ELSE RInt(x)

\* x / exposure.nav if exposure.nav else 0.0
OverNav(x, nav) == IF nav # 0 THEN RNorm(x, nav) ELSE RZero

\* Exposure.gross_leverage and Exposure.net_leverage
GrossLeverage(e) == OverNav(e.gross, e.nav)
NetLeverage(e) == OverNav(Abs(e.net), e.nav)

Breach(level, name, severity) ==
    [level |-> level, name |-> name, severity |-> severity]

\* RiskEngine._check_layer: the breaches of one layer, in the order added
CheckLayer(exposure, positions, limits, level) ==
    LET Add(cond, name, severity) ==
            IF cond THEN <<Breach(level, name, severity)>> ELSE <<>>
        AbsNotional(p) == Abs(Notional(p))
        PositionBreach(p) ==
            Add(RLt(limits.max_position_pct, OverNav(AbsNotional(p), exposure.nav)),
                "max_position_pct", "block")
        SectorNotional(sector) ==
            LET InSector(p) == IF p.sector = sector THEN AbsNotional(p) ELSE 0
            IN  SumSeq([n \in 1..Len(positions) |-> InSector(positions[n])])
        SectorBreach(cap) ==
            Add(RLt(cap[2], OverNav(SectorNotional(cap[1]), exposure.nav)),
                "sector_cap", "warn")
    IN  Add(RLt(limits.max_gross_leverage, GrossLeverage(exposure)),
            "max_gross_leverage", "block")
        \o Add(RLt(limits.max_net_leverage, NetLeverage(exposure)),
               "max_net_leverage", "warn")
        \o Flatten([k \in 1..Len(positions) |-> PositionBreach(positions[k])])
        \o Add(/\ positions # <<>>
               /\ RLt(limits.concentration_limit,
                      OverNav(MaxSeq([n \in 1..Len(positions) |-> AbsNotional(positions[n])]), exposure.nav)),
               "concentration_limit", "warn")
        \o Flatten([k \in 1..Len(limits.sector_caps) |->
                       SectorBreach(limits.sector_caps[k])])
        \o Add(/\ RLt(RZero, limits.liquidity_buffer_pct)
               /\ RLt(RInt(exposure.nav - exposure.gross),
                      RMul(limits.liquidity_buffer_pct, RInt(exposure.nav))),
               "liquidity_buffer", "warn")

\* factor_exposures: per factor, sum(notional * beta) / nav; {} when nav == 0
FactorExposures(positions, factor_betas, nav) ==
    IF nav = 0 THEN <<>>
    ELSE [k \in 1..Len(factor_betas) |->
            LET mapping == factor_betas[k].betas
                Beta(p) == IF p.ticker \in DOMAIN mapping
                           THEN mapping[p.ticker] ELSE p.beta
                BetaNotional(p) == Notional(p) * Beta(p)
            IN  [factor |-> factor_betas[k].factor,
                 exposure |-> RNorm(SumSeq([n \in 1..Len(positions) |-> BetaNotional(positions[n])]), nav)]]

\* f"factor_{factor}"
FactorBreachName(factor) == CASE factor = "MKT" -> "factor_MKT"

\* the factor breaches of check_limits: abs(exp) > 1.0
FactorBreaches(factor_exp) ==
    Flatten([k \in 1..Len(factor_exp) |->
        IF RLt(RInt(1), <<Abs(factor_exp[k].exposure[1]), factor_exp[k].exposure[2]>>)
        THEN <<Breach("factor", FactorBreachName(factor_exp[k].factor), "warn")>>
        ELSE <<>>])

\* high_correlations.  DataFrame.corr() is library code: the returns are
\* given by the correlation (in hundredths) of each pair of their columns.
HighCorrelations(returns, threshold) ==
    IF returns = <<>> THEN <<>>
    ELSE Flatten([k \in 1..Len(returns) |->
            IF RLe(threshold, Pct(Abs(returns[k].corr)))
            THEN <<returns[k]>> ELSE <<>>])

\* the decision of check_limits put the other way round: warn looked for first
DecisionWarnFirst(breaches) ==
    IF \E k \in 1..Len(breaches) : breaches[k].severity = "warn" THEN "warn"
    ELSE IF \E k \in 1..Len(breaches) : breaches[k].severity = "block" THEN "block"
    ELSE "pass"

\* check_limits, lines 128-132
Decision(breaches) ==
    IF \E k \in 1..Len(breaches) : breaches[k].severity = "block" THEN "block"
    ELSE IF \E k \in 1..Len(breaches) : breaches[k].severity = "warn" THEN "warn"
    ELSE "pass"

\* RiskEngine._aggregate_greeks
AggregateGreeks(positions) ==
    LET Delta(p) == p.delta
        Gamma(p) == p.gamma
        Vega(p) == p.vega
    IN  [delta |-> SumSeq([n \in 1..Len(positions) |-> Delta(positions[n])]), gamma |-> SumSeq([n \in 1..Len(positions) |-> Gamma(positions[n])]),
         vega |-> SumSeq([n \in 1..Len(positions) |-> Vega(positions[n])])]

\* RiskEngine.check_limits
CheckLimitsResult(in) ==
    LET exposure == ComputeExposure(in.positions, in.nav)
        factor_exp == IF in.factor_betas # <<>>
                      THEN FactorExposures(in.positions, in.factor_betas, in.nav)
                      ELSE <<>>
        pairs == IF in.returns.given
                 THEN HighCorrelations(in.returns.pairs, in.config.correlation_threshold)
                 ELSE <<>>
        breaches ==
            CheckLayer(exposure, in.positions, in.config.strategy_limits, "strategy")
            \o CheckLayer(exposure, in.positions, in.config.portfolio_limits, "portfolio")
            \o CheckLayer(exposure, in.positions, in.config.firm_limits, "firm")
            \o FactorBreaches(factor_exp)
            \o [k \in 1..Len(pairs) |-> Breach("correlation", "pairwise_corr", "warn")]
    IN  [decision |-> Decision(breaches), exposure |-> exposure,
         breaches |-> breaches, factor_exposures |-> factor_exp,
         correlation_flags |-> pairs, greeks |-> AggregateGreeks(in.positions)]

\* LayerLimits, fractions given in hundredths
LayerLimits(pos, gross, net, caps, conc, liq) ==
    [max_position_pct |-> Pct(pos), max_gross_leverage |-> Pct(gross),
     max_net_leverage |-> Pct(net), sector_caps |-> caps,
     concentration_limit |-> Pct(conc), liquidity_buffer_pct |-> Pct(liq)]

\* LayerLimits(): the dataclass defaults
DefaultLayerLimits == LayerLimits(5, 200, 100, <<>>, 20, 5)

\* a default configuration whose firm layer allows a position less than
\* the strategy layer does
DefaultRiskConfigFirmTight ==
    [strategy_limits |->
        LayerLimits(5, 200, 100, <<<<"TECH", Pct(30)>>, <<"FIN", Pct(25)>>>>, 20, 5),
     portfolio_limits |->
        LayerLimits(7, 250, 150, <<<<"TECH", Pct(35)>>, <<"FIN", Pct(30)>>>>, 25, 3),
     firm_limits |-> LayerLimits(3, 300, 200, <<>>, 30, 2),
     correlation_threshold |-> Pct(80)]

\* default_risk_config()
DefaultRiskConfig ==
    [strategy_limits |->
        LayerLimits(5, 200, 100, <<<<"TECH", Pct(30)>>, <<"FIN", Pct(25)>>>>, 20, 5),
     portfolio_limits |->
        LayerLimits(7, 250, 150, <<<<"TECH", Pct(35)>>, <<"FIN", Pct(30)>>>>, 25, 3),
     firm_limits |-> LayerLimits(10, 300, 200, <<>>, 30, 2),
     correlation_threshold |-> Pct(80)]

\* the configuration of test_risk_engine_blocks_gross_leverage
GrossTestRiskConfig ==
    [strategy_limits |-> [DefaultLayerLimits EXCEPT !.max_gross_leverage = Pct(100)],
     portfolio_limits |-> DefaultLayerLimits,
     firm_limits |-> DefaultLayerLimits,
     correlation_threshold |-> Pct(80)]

\* a configuration whose position and liquidity limits are wide, so that
\* leverage alone decides
LooseRiskConfig ==
    [strategy_limits |-> LayerLimits(1000, 200, 100, <<>>, 1000, 0),
     portfolio_limits |-> LayerLimits(1000, 250, 150, <<>>, 1000, 0),
     firm_limits |-> LayerLimits(1000, 300, 200, <<>>, 1000, 0),
     correlation_threshold |-> Pct(80)]

RiskConfigs == {DefaultRiskConfig, GrossTestRiskConfig, LooseRiskConfig}
RiskNavs == {-100, 0, 100, 1000}
RiskQtys == {-2, 1, 2}
RiskPrices == {50, 100}
RiskSectors == {"", "TECH"}

RiskPositionLists ==
    UNION {{[k \in 1..n |-> [ticker |-> TickerOf(k), qty |-> f[k].qty,
                              price |-> f[k].price, sector |-> f[k].sector,
                              beta |-> 1, delta |-> 0, gamma |-> 0, vega |-> 0]] :
              f \in [1..n -> [qty : RiskQtys, price : RiskPrices, sector : RiskSectors]]} :
           n \in 0..MaxPositions}

\* factor_betas: None, or one factor with a beta of 2 for the first ticker
RiskFactorBetas ==
    {<<>>, <<[factor |-> "MKT", betas |-> [t \in {TickerOf(1)} |-> 2]]>>}

\* returns: None, or two columns whose correlation is the given hundredths
RiskReturns ==
    {[given |-> FALSE, pairs |-> <<>>]}
    \cup {[given |-> TRUE, pairs |-> <<[a |-> TickerOf(1), b |-> TickerOf(2), corr |-> c]>>] :
            c \in {-90, 50, 80}}

RiskInputs ==
    [positions : RiskPositionLists, nav : RiskNavs, config : RiskConfigs,
     factor_betas : RiskFactorBetas, returns : RiskReturns]

\* engine.check_limits(positions, nav, factor_betas=..., returns=...)
CheckLimits ==
    /\ riskIn # <<>>
    /\ riskOut = <<>>
    /\ riskOut' = CheckLimitsResult(riskIn)
    /\ UNCHANGED <<riskIn, tcaIn, tcaOut, simVars, ledgerVars, compVars, auditDirs,
                   auditWritable, pipe>>

RiskOff == riskIn = <<>> /\ riskOut = <<>> /\ tcaIn = <<>> /\ tcaOut = <<>>

(***************************************************************************)
(* Transaction-cost analysis (src/exec/pretrade.py, posttrade.py,          *)
(* config.py).  Prices, quantities, notionals and ADV are integers, basis  *)
(* points are exact rationals.  A fill dict has px, qty, venue and side    *)
(* and may have arrival_px (<<>> when absent); vwap_px 0 stands for a      *)
(* missing or zero VWAP, both falsy in the code.                           *)
(***************************************************************************)
\* estimate_slippage
EstimateSlippage(notional, adv, spread_bps, impact_coeff) ==
    IF adv <= 0 THEN spread_bps
    ELSE LET participation == RNorm(notional, adv)
             impact == RMul(RMul(impact_coeff, participation), RInt(100))
         IN  RAdd(spread_bps, impact)

\* build_schedule
BuildSchedule(strategy, slices, pov_participation) ==
    IF strategy = "POV" THEN [n \in 1..slices |-> pov_participation]
    ELSE [n \in 1..slices |-> RNorm(1, slices)]

\* pretrade_estimate
PretradeEstimateResult(notional, adv, cfg, ticker) ==
    LET spread_bps == IF ticker # "" /\ ticker \in DOMAIN cfg.spread_bps_by_ticker
                      THEN cfg.spread_bps_by_ticker[ticker]
                      ELSE cfg.default_spread_bps
        slippage_bps == EstimateSlippage(notional, adv, spread_bps,
                                         cfg.impact.impact_coefficient)
    IN  [expected_slippage_bps |-> slippage_bps,
         expected_impact_bps |-> RSub(slippage_bps, spread_bps),
         strategy |-> cfg.strategy.name,
         schedule |-> BuildSchedule(cfg.strategy.name, cfg.strategy.slices,
                                    cfg.strategy.pov_participation)]

\* an arrival slippage that keeps the BUY sign on both sides
ArrivalSlippageUnsigned(exec_px, arrival_px, side) ==
    RMul(RDiv(RSub(exec_px, arrival_px), arrival_px), RInt(10000))

\* arrival_slippage; side is the lower-cased side string
ArrivalSlippage(exec_px, arrival_px, side) ==
    LET diff == RSub(exec_px, arrival_px)
        bps  == RMul(RDiv(diff, arrival_px), RInt(10000))
    IN  IF side = "buy" THEN bps ELSE RSub(RZero, bps)

\* vwap_slippage
VwapSlippage(exec_px, vwap_px, side) ==
    LET diff == RSub(exec_px, vwap_px)
        bps  == RMul(RDiv(diff, vwap_px), RInt(10000))
    IN  IF side = "buy" THEN bps ELSE RSub(RZero, bps)

\* implementation_shortfall
ImplementationShortfall(avg_exec_px, arrival_px, side) ==
    ArrivalSlippage(avg_exec_px, arrival_px, side)

\* broker_attribution: venue -> sum(slip * qty) / sum(qty), for the venues
\* whose quantities do not sum to 0
BrokerAttribution(fills) ==
    LET Slip(f) == ArrivalSlippage(RInt(f.px),
                                   IF f.arrival_px = <<>> THEN RInt(f.px)
                                   ELSE RInt(f.arrival_px[1]),
                                   f.side)
        Total(b) == LET Term(f) == IF f.venue = b THEN RMul(Slip(f), RInt(f.qty)) ELSE RZero
                    IN  [n \in 1..Len(fills) |-> Term(fills[n])]
        Qty(b) == SumSeq([n \in 1..Len(fills) |->
                            IF fills[n].venue = b THEN fills[n].qty ELSE 0])
        RSum(xs) == LET RECURSIVE Go(_)
                        Go(k) == IF k = 0 THEN RZero ELSE RAdd(Go(k - 1), xs[k])
                    IN  Go(Len(xs))
        venues == {fills[n].venue : n \in 1..Len(fills)}
    IN  [b \in {v \in venues : Qty(v) # 0} |-> RDiv(RSum(Total(b)), RInt(Qty(b)))]

\* posttrade_metrics
PosttradeMetricsResult(fills, arrival_px, vwap_px, side) ==
    IF fills = <<>>
    THEN [arrival_slippage_bps |-> RZero, vwap_slippage_bps |-> RZero,
          implementation_shortfall_bps |-> RZero, broker_attribution |-> <<>>]
    ELSE LET avg_exec == RNorm(SumSeq([n \in 1..Len(fills) |-> fills[n].px * fills[n].qty]),
                               SumSeq([n \in 1..Len(fills) |-> fills[n].qty]))
         IN  [arrival_slippage_bps |-> ArrivalSlippage(avg_exec, RInt(arrival_px), side),
              vwap_slippage_bps |->
                  VwapSlippage(avg_exec,
                               RInt(IF vwap_px # 0 THEN vwap_px ELSE arrival_px), side),
              implementation_shortfall_bps |->
                  ImplementationShortfall(avg_exec, RInt(arrival_px), side),
              broker_attribution |-> BrokerAttribution(fills)]

\* TCAConfig(): the dataclass defaults
DefaultTcaConfig ==
    [default_spread_bps |-> RInt(5), spread_bps_by_ticker |-> <<>>,
     impact |-> [impact_coefficient |-> RNorm(1, 2)],
     strategy |-> [name |-> "TWAP", slices |-> 4, pov_participation |-> RNorm(1, 10)]]

\* a configuration with a per-ticker spread and the POV strategy
PovTcaConfig ==
    [DefaultTcaConfig EXCEPT !.spread_bps_by_ticker = [t \in {"AAPL"} |-> RInt(2)],
                             !.strategy.name = "POV"]

TcaNotionals == {-1000, 0, 500, 1000}
TcaAdvs == {-1, 0, 1000, 2000}

PretradeInputs ==
    [call : {"pretrade"}, notional : TcaNotionals, adv : TcaAdvs,
     cfg : {DefaultTcaConfig, PovTcaConfig}, ticker : {"", "AAPL", "MSFT"}]

TcaFills(side) ==
    [px : {99, 100, 101}, qty : {1, 3}, venue : {"LIT", "DARK"}, side : {side},
     arrival_px : {<<>>, <<100>>}]

PosttradeInputs ==
    UNION {[call : {"posttrade"},
            fills : UNION {[1..n -> TcaFills(side)] : n \in 0..MaxTcaFills},
            arrival_px : {100}, vwap_px : {0, 98}, side : {side}] :
           side \in {"buy", "sell"}}

TcaInputs == PretradeInputs \cup PosttradeInputs

\* pretrade_estimate(notional, adv, cfg, ticker=ticker)
PretradeEstimate ==
    /\ tcaIn # <<>>
    /\ tcaIn.call = "pretrade"
    /\ tcaOut = <<>>
    /\ tcaOut' = PretradeEstimateResult(tcaIn.notional, tcaIn.adv, tcaIn.cfg,
                                        tcaIn.ticker)
    /\ UNCHANGED <<riskIn, riskOut, tcaIn, simVars, ledgerVars, compVars, auditDirs,
                   auditWritable, pipe>>

\* posttrade_metrics(fills, arrival_px, vwap_px, side)
PosttradeMetrics ==
    /\ tcaIn # <<>>
    /\ tcaIn.call = "posttrade"
    /\ tcaOut = <<>>
    /\ tcaOut' = PosttradeMetricsResult(tcaIn.fills, tcaIn.arrival_px,
                                        tcaIn.vwap_px, tcaIn.side)
    /\ UNCHANGED <<riskIn, riskOut, tcaIn, simVars, ledgerVars, compVars, auditDirs,
                   auditWritable, pipe>>

(***************************************************************************)
(* Actions of a simulator instance.                                        *)
(***************************************************************************)
\* ExecutionSimulator(config)
Construct(i, cfg) ==
    /\ simPc[i] = "none"
    /\ simCfg' = [simCfg EXCEPT ![i] = cfg]
    /\ rng' = RngAfterInit(cfg, rng)
    /\ simPc' = [simPc EXCEPT ![i] = "idle"]
    /\ auditDirs' = auditDirs \cup {"logs/oms"}
    /\ UNCHANGED <<auditWritable, pipe>>
    /\ UNCHANGED <<simCur, simHist, simAudit, simTca>>
    /\ UNCHANGED <<ledgerVars, riskVars, compVars>>

\* execute(order), up to the loop: remaining = order.qty, fills = [], partials = 0
Begin(i, o) ==
    /\ simPc[i] = "idle"
    /\ simCur' = [simCur EXCEPT ![i] =
          [order |-> o, remaining |-> o.qty, partials |-> 0, fills |-> <<>>]]
    /\ simPc' = [simPc EXCEPT ![i] = "loop"]
    /\ UNCHANGED <<rng, simCfg, simHist, simAudit, simTca>>
    /\ UNCHANGED <<ledgerVars, riskVars, compVars, auditDirs, auditWritable, pipe>>

\* the loop test and, when it passes, one iteration
Iterate(i) ==
    /\ simPc[i] = "loop"
    /\ IF simCur[i].remaining > 0
       THEN LET r == LoopBody(simCfg[i], simCur[i].order, simCur[i], rng)
            IN  /\ simCur' = [simCur EXCEPT ![i] = r.cur]
                /\ rng' = r.rng
                /\ simPc' = [simPc EXCEPT ![i] = IF r.brk THEN "status" ELSE "loop"]
       ELSE /\ simPc' = [simPc EXCEPT ![i] = "status"]
            /\ UNCHANGED <<simCur, rng>>
    /\ UNCHANGED <<simCfg, simHist, simAudit, simTca>>
    /\ UNCHANGED <<ledgerVars, riskVars, compVars, auditDirs, auditWritable, pipe>>

\* _write_audit and _write_broker_perf: the appends of one execute call (both
\* files lie under logs/oms and share the outcome), and whether an
\* exception leaves the methods
WriteOmsAudit(log, sink_ok) ==
    [log |-> Append(log, sink_ok), raised |-> FALSE]

\* order.side.name.lower(), and side.lower() of the str enum OrderSide
LowerSide(side) == IF side = "BUY" THEN "buy" ELSE "sell"

\* f.__dict__ of a Fill: px, qty, venue and side, and no arrival_px key
FillDict(f) ==
    [px |-> f.px, qty |-> f.qty, venue |-> f.venue, side |-> LowerSide(f.side),
     arrival_px |-> <<>>]

\* the posttrade_metrics call of execute (lines 99-127): neither vwap_bars
\* nor a vwap_provider is configured, so vwap_px = order.px; prices in
\* units of 1/PxScale
ExecuteTca(order, fills) ==
    PosttradeMetricsResult([n \in 1..Len(fills) |-> FillDict(fills[n])],
                           order.px * PxScale, order.px * PxScale,
                           LowerSide(order.side))

\* the status assignment, the post-trade metrics, the audit appends and the
\* return of (order, fills)
Finish(i) ==
    /\ simPc[i] = "status"
    /\ LET c  == simCur[i]
           st == StatusOf(SumQty(c.fills), c.order.qty)
           o  == [c.order EXCEPT !.status = st]
           w  == WriteOmsAudit(simAudit[i], auditWritable)
       IN  /\ simAudit' = [simAudit EXCEPT ![i] = w.log]
           /\ simTca' = [simTca EXCEPT ![i] = Append(@, ExecuteTca(o, c.fills))]
           /\ simHist' = [simHist EXCEPT ![i] =
                 IF w.raised THEN @ ELSE Append(@, [order |-> o, fills |-> c.fills])]
           /\ simCur' = [simCur EXCEPT ![i] = NoCur]
    /\ simPc' = [simPc EXCEPT ![i] = "idle"]
    /\ UNCHANGED <<rng, simCfg>>
    /\ UNCHANGED <<ledgerVars, riskVars, compVars, auditDirs, auditWritable, pipe>>

InitSim ==
    /\ rng \in 0..(RngMod - 1)
    /\ simCfg = [i \in Sims |-> <<>>]
    /\ simPc = [i \in Sims |-> "none"]
    /\ simCur = [i \in Sims |-> NoCur]
    /\ simHist = [i \in Sims |-> <<>>]
    /\ simAudit = [i \in Sims |-> <<>>]
    /\ simTca = [i \in Sims |-> <<>>]

(***************************************************************************)
(* ComplianceEngine (src/core/compliance_engine.py, compliance_rules.py).  *)
(* Notionals, the portfolio value and max_gross_notional are integers,     *)
(* max_single_name_pct is counted in hundredths.  An order dict without a  *)
(* ticker, or with an empty one, has ticker ""; one without a notional has *)
(* notional 0.  A RuleResult is its name, passed and severity; the message *)
(* and the details (which name the first offending ticker of a set         *)
(* iteration) are left out.                                                *)
(***************************************************************************)
CompTickers == {"", "AAPL", "MSFT"}
CompNotionals == {-60, 0, 10}
CompOrders == [ticker : CompTickers, notional : CompNotionals]
CompOrderLists == UNION {[1..n -> CompOrders] : n \in 0..MaxCompOrders}
PortfolioValues == {0, 100}

ComplianceConfig(positions, pct, gross) ==
    [max_positions |-> positions, max_single_name_pct |-> pct,
     max_gross_notional |-> gross]

\* the limits of the tests (scaled), an all-tight one and a negative count
ComplianceConfigs ==
    {ComplianceConfig(5, 50, 1000), ComplianceConfig(5, 10, 1000),
     ComplianceConfig(1, 50, 1000), ComplianceConfig(5, 50, 50),
     ComplianceConfig(1, 10, 50), ComplianceConfig(-1, 50, 1000)}

RuleResult(name, passed, severity) ==
    [name |-> name, passed |-> passed, severity |-> severity]

\* gross = sum(abs(o.get("notional", 0.0)) for o in orders)
GrossNotional(orders) ==
    SumSeq([n \in 1..Len(orders) |-> Abs(orders[n].notional)])

\* distinct = set(o.get("ticker") for o in orders if o.get("ticker"))
DistinctTickers(orders) ==
    {orders[n].ticker : n \in 1..Len(orders)} \ {""}

\* sum(abs(o.get("notional", 0.0)) for o in orders if o.get("ticker") == tkr)
TickerNotional(orders, tkr) ==
    SumSeq([n \in 1..Len(orders) |->
               IF orders[n].ticker = tkr THEN Abs(orders[n].notional) ELSE 0])

\* a single-name test that also fails a ticker exactly at the limit
SingleNameOverAtLimit(cfg, orders, portfolio_value) ==
    \E tkr \in DistinctTickers(orders) :
        TickerNotional(orders, tkr) * 100 >= cfg.max_single_name_pct * portfolio_value

\* notional > cfg.max_single_name_pct * portfolio_value for some ticker
SingleNameOver(cfg, orders, portfolio_value) ==
    \E tkr \in DistinctTickers(orders) :
        TickerNotional(orders, tkr) * 100 > cfg.max_single_name_pct * portfolio_value

\* the results list of evaluate_orders, in the order it is built
RuleResults(cfg, orders, portfolio_value) ==
    <<IF Cardinality(DistinctTickers(orders)) > cfg.max_positions
      THEN RuleResult("max_positions", FALSE, "block")
      ELSE RuleResult("max_positions", TRUE, "warn")>>
    \o (IF SingleNameOver(cfg, orders, portfolio_value)
        THEN <<RuleResult("max_single_name_pct", FALSE, "block")>>
        ELSE <<>>)
    \o <<IF GrossNotional(orders) > cfg.max_gross_notional
         THEN RuleResult("max_gross_notional", FALSE, "block")
         ELSE RuleResult("max_gross_notional", TRUE, "warn")>>

\* blocked = any((not r.passed) and r.severity == "block" for r in results)
ComplianceDecision(results) ==
    IF \E n \in 1..Len(results) :
          ~results[n].passed /\ results[n].severity = "block"
    THEN "block" ELSE "pass"

EvaluateResult(cfg, orders, portfolio_value) ==
    LET results == RuleResults(cfg, orders, portfolio_value)
    IN  [decision |-> ComplianceDecision(results), results |-> results]

\* an append whose exception is not caught
WriteAuditUnguarded(log, line, sink_ok) ==
    [log |-> IF sink_ok THEN Append(log, line) ELSE log, raised |-> ~sink_ok]

\* _write_audit: the append, and whether an exception leaves the method
WriteAudit(log, line, sink_ok) ==
    [log |-> IF sink_ok THEN Append(log, line) ELSE log, raised |-> FALSE]

\* ComplianceEngine(config): the configuration is stored, the directory made
ConstructCompliance(cfg) ==
    /\ compCfg = <<>>
    /\ compCfg' = cfg
    /\ auditDirs' = auditDirs \cup {"logs/compliance"}
    /\ UNCHANGED <<auditWritable, pipe>>
    /\ UNCHANGED <<compIn, compOut, compAudit>>
    /\ UNCHANGED <<simVars, ledgerVars, riskVars>>

\* engine.evaluate_orders(orders, portfolio_value), the audit append included
EvaluateOrders(orders, portfolio_value) ==
    /\ compCfg # <<>>
    /\ compOut = <<>>
    /\ LET res == EvaluateResult(compCfg, orders, portfolio_value)
           w   == WriteAudit(compAudit, res.decision, auditWritable)
       IN  /\ compAudit' = w.log
           /\ compIn' = [orders |-> orders, portfolio_value |-> portfolio_value]
           /\ compOut' = IF w.raised THEN [raised |-> TRUE] ELSE res
    /\ UNCHANGED <<compCfg, auditDirs, auditWritable, pipe>>
    /\ UNCHANGED <<simVars, ledgerVars, riskVars>>

\* an Order as a caller builds it: status NEW, the id "<ticker>-<idx>" of main.py
NewOrder(o, idx) ==
    [order_id |-> idx, ticker |-> o.ticker, side |-> o.side, qty |-> o.qty,
     px |-> o.px, status |-> "NEW"]

(***************************************************************************)
(* Sequential runs.  Run 1 constructs a simulator with any configuration   *)
(* and executes up to MaxOrders orders; when it is over, run 2 constructs  *)
(* a simulator with the same configuration and executes the same orders.   *)
(* The generator is the process's: run 2 finds it where run 1 left it.     *)
(***************************************************************************)
RunConfigs(i) ==
    IF i = 1 THEN Configs
    ELSE IF simPc[1] = "idle" /\ simHist[1] # <<>> THEN {simCfg[1]}
    ELSE {}

RunOrders(i) ==
    IF i = 1
    THEN IF simPc[2] = "none" /\ Len(simHist[1]) < MaxOrders
         THEN {NewOrder(o, Len(simHist[1]) + 1) : o \in Orders}
         ELSE {}
    ELSE IF Len(simHist[2]) < Len(simHist[1])
         THEN {[simHist[1][Len(simHist[2]) + 1].order EXCEPT !.status = "NEW"]}
         ELSE {}

Next ==
    \/ \E i \in Sims : \E cfg \in RunConfigs(i) : Construct(i, cfg)
    \/ \E i \in Sims : \E o \in RunOrders(i) : Begin(i, o)
    \/ \E i \in Sims : Iterate(i)
    \/ \E i \in Sims : Finish(i)

Init ==
    /\ InitSim
    /\ InitLedger
    /\ RiskOff
    /\ compCfg = <<>>
    /\ compIn = <<>>
    /\ compOut = <<>>
    /\ compAudit = <<>>
    /\ auditDirs = {}
    /\ auditWritable = TRUE
    /\ pipe = NoPipe

Spec == Init /\ [][Next]_vars

(***************************************************************************)
(* Concurrent instances: two simulators of one process, constructed and    *)
(* run in any interleaving (an external worker pool), one order each.      *)
(***************************************************************************)
ConcOrders(i) ==
    IF simHist[i] = <<>>
    THEN {NewOrder(o, 1) : o \in {x \in Orders : x.qty > 0 /\ x.side = "BUY"}}
    ELSE {}

NextConc ==
    \/ \E i \in Sims : \E cfg \in Configs : Construct(i, cfg)
    \/ \E i \in Sims : \E o \in ConcOrders(i) : Begin(i, o)
    \/ \E i \in Sims : Iterate(i)
    \/ \E i \in Sims : Finish(i)

SpecConc == Init /\ [][NextConc]_vars

(***************************************************************************)
(* The ledger alone: ledger 1 is fed any fills, ledger 2, a fresh ledger   *)
(* with the same starting cash, is fed the same fills again, each at its   *)
(* own pace.                                                               *)
(***************************************************************************)
FillsFor(l) ==
    IF l = 1
    THEN IF Len(applied[1]) < MaxFills THEN LedgerFills ELSE {}
    ELSE IF Len(applied[2]) < Len(applied[1])
         THEN {applied[1][Len(applied[2]) + 1]}
         ELSE {}

NextLedger == \E l \in Ledgers : \E f \in FillsFor(l) : ApplyFill(l, f)

InitLedgerSpec ==
    /\ rng = 0
    /\ simCfg = [i \in Sims |-> <<>>]
    /\ simPc = [i \in Sims |-> "none"]
    /\ simCur = [i \in Sims |-> NoCur]
    /\ simHist = [i \in Sims |-> <<>>]
    /\ simAudit = [i \in Sims |-> <<>>]
    /\ simTca = [i \in Sims |-> <<>>]
    /\ InitLedger
    /\ RiskOff
    /\ compCfg = <<>>
    /\ compIn = <<>>
    /\ compOut = <<>>
    /\ compAudit = <<>>
    /\ auditDirs = {}
    /\ auditWritable = TRUE
    /\ pipe = NoPipe

SpecLedger == InitLedgerSpec /\ [][NextLedger]_vars

(***************************************************************************)
(* The stateless calculators, one call each: check_limits,                 *)
(* pretrade_estimate or posttrade_metrics on any of the inputs.            *)
(***************************************************************************)
InitRiskSpec ==
    /\ rng = 0
    /\ simCfg = [i \in Sims |-> <<>>]
    /\ simPc = [i \in Sims |-> "none"]
    /\ simCur = [i \in Sims |-> NoCur]
    /\ simHist = [i \in Sims |-> <<>>]
    /\ simAudit = [i \in Sims |-> <<>>]
    /\ simTca = [i \in Sims |-> <<>>]
    /\ InitLedger
    /\ \/ riskIn \in RiskInputs /\ tcaIn = <<>>
       \/ riskIn = <<>> /\ tcaIn \in TcaInputs
    /\ riskOut = <<>>
    /\ tcaOut = <<>>
    /\ compCfg = <<>>
    /\ compIn = <<>>
    /\ compOut = <<>>
    /\ compAudit = <<>>
    /\ auditDirs = {}
    /\ auditWritable = TRUE
    /\ pipe = NoPipe

NextRisk == CheckLimits \/ PretradeEstimate \/ PosttradeMetrics

SpecRisk == InitRiskSpec /\ [][NextRisk]_vars

(***************************************************************************)
(* The compliance engine alone: built with any configuration, then asked   *)
(* to evaluate an order list.                                              *)
(***************************************************************************)
InitCompliance ==
    /\ rng = 0
    /\ simCfg = [i \in Sims |-> <<>>]
    /\ simPc = [i \in Sims |-> "none"]
    /\ simCur = [i \in Sims |-> NoCur]
    /\ simHist = [i \in Sims |-> <<>>]
    /\ simAudit = [i \in Sims |-> <<>>]
    /\ simTca = [i \in Sims |-> <<>>]
    /\ InitLedger
    /\ RiskOff
    /\ compCfg = <<>>
    /\ compIn = <<>>
    /\ compOut = <<>>
    /\ compAudit = <<>>
    /\ auditDirs = {}
    /\ auditWritable = TRUE
    /\ pipe = NoPipe

NextCompliance ==
    \/ \E cfg \in ComplianceConfigs : ConstructCompliance(cfg)
    \/ \E orders \in CompOrderLists : \E pv \in PortfolioValues :
          EvaluateOrders(orders, pv)

SpecCompliance == InitCompliance /\ [][NextCompliance]_vars

(***************************************************************************)
(* The audited components with an unreliable sink: the audit files turn    *)
(* unwritable and writable again at any moment while a compliance engine   *)
(* evaluates an order list and a seeded simulator executes its orders.     *)
(***************************************************************************)
\* the environment: the audit directory loses or regains write access
SinkChanges ==
    /\ auditWritable' = ~auditWritable
    /\ UNCHANGED <<simVars, ledgerVars, riskVars, compVars, auditDirs, pipe>>

AuditSimConfigs == {cfg \in Configs : cfg.seed = <<1>> /\ ~cfg.route_venues}

AuditSimOrders ==
    IF Len(simHist[1]) < MaxOrders
    THEN {NewOrder(o, Len(simHist[1]) + 1) :
             o \in {x \in Orders : x.qty > 0 /\ x.side = "BUY"}}
    ELSE {}

AuditOrderLists ==
    {<<[ticker |-> "AAPL", notional |-> 10]>>,
     <<[ticker |-> "AAPL", notional |-> -60]>>}

InitAudit ==
    /\ rng = 0
    /\ simCfg = [i \in Sims |-> <<>>]
    /\ simPc = [i \in Sims |-> "none"]
    /\ simCur = [i \in Sims |-> NoCur]
    /\ simHist = [i \in Sims |-> <<>>]
    /\ simAudit = [i \in Sims |-> <<>>]
    /\ simTca = [i \in Sims |-> <<>>]
    /\ InitLedger
    /\ RiskOff
    /\ compCfg = <<>>
    /\ compIn = <<>>
    /\ compOut = <<>>
    /\ compAudit = <<>>
    /\ auditDirs = {}
    /\ auditWritable \in BOOLEAN
    /\ pipe = NoPipe

NextAudit ==
    \/ SinkChanges
    \/ \E cfg \in ComplianceConfigs : ConstructCompliance(cfg)
    \/ \E orders \in AuditOrderLists : EvaluateOrders(orders, 100)
    \/ \E cfg \in AuditSimConfigs : Construct(1, cfg)
    \/ \E o \in AuditSimOrders : Begin(1, o)
    \/ Iterate(1)
    \/ Finish(1)

SpecAudit == InitAudit /\ [][NextAudit]_vars

(***************************************************************************)
(* The equity pipeline (src/main.py, run_equity_pipeline): the pre-trade   *)
(* compliance gate, the price fetch, the risk gate, the signals, the       *)
(* simulated execution into a ledger, the optional rebalance routed        *)
(* through a second simulator, and the post-trade compliance check.  What  *)
(* the data providers and the signal generator return is the run's input:  *)
(* the latest close, the orders the signals turn into, the rebalance       *)
(* proposal and the final value.                                           *)
(***************************************************************************)
\* default_compliance_config(): ComplianceConfig() with max_gross_notional 1e6
DefaultMaxPositions == 25
DefaultSingleNamePct == 10
DefaultMaxGross == 1000000

DefaultComplianceConfig ==
    ComplianceConfig(DefaultMaxPositions, DefaultSingleNamePct, DefaultMaxGross)

\* proposed_notional = 100000.0, and nav=100000.0 of the risk check
ProposedNotional == 100000
PipelineNav == 100000

\* ExecutionConfig(): max_partials 2, seed 42, slippage_bps 5.0, and
\* partial_fill_prob 0.2: a draw u / RngMod is below 0.2 iff u is below
\* RngMod / 5 rounded up
DefaultMaxPartials == 2
DefaultSeed == 42
DefaultSlippageBps == 5
DefaultPartialFillProb == (RngMod + 4) \div 5

\* ExecutionConfig(slippage_bps=cost_bps)
PipelineExecutionConfig(cost_bps) ==
    [slippage_bps |-> cost_bps, partial_fill_prob |-> DefaultPartialFillProb,
     max_partials |-> DefaultMaxPartials, venue |-> "SIM",
     route_venues |-> FALSE, seed |-> <<DefaultSeed>>]

\* ExecutionConfig(route_venues=True)
RebalanceExecutionConfig ==
    [slippage_bps |-> DefaultSlippageBps, partial_fill_prob |-> DefaultPartialFillProb,
     max_partials |-> DefaultMaxPartials, venue |-> "SIM",
     route_venues |-> TRUE, seed |-> <<DefaultSeed>>]

PipeTickers == {"", "AAPL"}
CostBps == {0, 5}
\* price_data["Close"].iloc[-1]; <<>> stands for an empty price frame
PriceHints == {<<>>, <<100>>, <<6000>>}
\* metrics["final_value"]
FinalValues == {0, 99000}

\* the orders of lines 262-277: one per change of the signal, BUY when the
\* signal turns positive and SELL otherwise (so no BUY follows a BUY), of
\* quantity 1.0 at the close
PipeOrderLists(ticker) ==
    LET sides == {ss \in UNION {[1..n -> Sides] : n \in 0..MaxOrders} :
                     \A k \in 1..(Len(ss) - 1) : ~(ss[k] = "BUY" /\ ss[k + 1] = "BUY")}
    IN  {[k \in 1..Len(ss) |->
            NewOrder([ticker |-> ticker, side |-> ss[k], qty |-> QtyScale,
                      px |-> 100], k)] : ss \in sides}

\* proposal.orders of the rebalancer: none, or one BUY
Proposals ==
    {<<>>, <<NewOrder([ticker |-> "AAPL", side |-> "BUY", qty |-> 2 * QtyScale,
                       px |-> 100], 0)>>}

\* a risk gate that lets every decision through
RiskBlocksNever(risk) == FALSE

\* if pretrade["decision"] == "block": ... return None
ComplianceBlocks(pretrade) == pretrade.decision = "block"

\* if risk["decision"] == "block": ... return None
RiskBlocks(risk) == risk.decision = "block"

\* a Fill as the ledger reads it: quantity and price as exact rationals
LedgerFill(f) ==
    [ticker |-> f.ticker, side |-> f.side, qty |-> RNorm(f.qty, QtyScale),
     px |-> RNorm(f.px, PxScale)]

\* the fills execute has returned so far, in order
ReturnedFills(i) == Flatten([k \in 1..Len(simHist[i]) |-> simHist[i][k].fills])

PipeComplianceConfigs ==
    IF pipe.pc = "compliance" THEN {DefaultComplianceConfig} ELSE {}

PipePretradeOrders ==
    IF pipe.pc = "compliance"
    THEN {<<[ticker |-> pipe.ticker, notional |-> ProposedNotional]>>}
    ELSE {}

\* lines 154-165: the pre-trade compliance gate
PretradeGate ==
    /\ pipe.pc = "compliance"
    /\ compOut # <<>>
    /\ pipe' = [pipe EXCEPT !.pc = IF ComplianceBlocks(compOut) THEN "returned"
                                   ELSE "fetch"]
    /\ UNCHANGED <<simVars, ledgerVars, riskVars, compVars, auditDirs, auditWritable>>

\* lines 166-182: the price fetch (an empty frame ends the run) and the
\* position the risk check is given
FetchPrices(hint) ==
    /\ pipe.pc = "fetch"
    /\ IF hint = <<>>
       THEN /\ pipe' = [pipe EXCEPT !.pc = "returned"]
            /\ UNCHANGED riskIn
       ELSE /\ pipe' = [pipe EXCEPT !.pc = "risk"]
            /\ riskIn' = [positions |-> <<[ticker |-> pipe.ticker, qty |-> 1,
                                          price |-> hint[1], sector |-> "",
                                          beta |-> 1, delta |-> 0, gamma |-> 0,
                                          vega |-> 0]>>,
                          nav |-> PipelineNav, config |-> DefaultRiskConfig,
                          factor_betas |-> <<>>,
                          returns |-> [given |-> FALSE, pairs |-> <<>>]]
    /\ UNCHANGED <<riskOut, tcaIn, tcaOut, simVars, ledgerVars, compVars, auditDirs,
                   auditWritable>>

\* lines 184-193: the risk gate
RiskGate ==
    /\ pipe.pc = "risk"
    /\ riskOut # <<>>
    /\ pipe' = [pipe EXCEPT !.pc = IF RiskBlocks(riskOut) THEN "returned"
                                   ELSE "signals"]
    /\ UNCHANGED <<simVars, ledgerVars, riskVars, compVars, auditDirs, auditWritable>>

\* lines 195-277: sentiment, signals and the orders they turn into
GenerateSignals(orders) ==
    /\ pipe.pc = "signals"
    /\ pipe' = [pipe EXCEPT !.pc = "backtest",
                            !.orders = IF pipe.simulate_execution THEN orders
                                       ELSE <<>>]
    /\ UNCHANGED <<simVars, ledgerVars, riskVars, compVars, auditDirs, auditWritable>>

\* lines 282-291: the simulator of the backtest, the order execute is called
\* with next, and the fill apply_fills passes to apply_fill next
PipeSimConfigs(i) ==
    IF i = 1 /\ pipe.pc = "backtest" /\ pipe.simulate_execution
    THEN {PipelineExecutionConfig(pipe.cost_bps)}
    ELSE IF i = 2 /\ pipe.pc = "route" /\ pipe.simulate_execution
              /\ pipe.proposal # <<>>
    THEN {RebalanceExecutionConfig}
    ELSE {}

PipeSimOrders(i) ==
    IF i = 1 /\ pipe.pc = "backtest" /\ Len(simHist[1]) < Len(pipe.orders)
       /\ Len(applied[1]) = Len(ReturnedFills(1))
    THEN {pipe.orders[Len(simHist[1]) + 1]}
    ELSE IF i = 2 /\ pipe.pc = "route" /\ Len(simHist[2]) < Len(pipe.proposal)
    THEN {pipe.proposal[Len(simHist[2]) + 1]}
    ELSE {}

PipeFills ==
    IF pipe.pc = "backtest" /\ Len(applied[1]) < Len(ReturnedFills(1))
    THEN {LedgerFill(ReturnedFills(1)[Len(applied[1]) + 1])}
    ELSE {}

\* lines 258-322: the backtest is over (the simulated path has executed every
\* order and applied every fill; the other path calls the backtester)
BacktestDone ==
    /\ pipe.pc = "backtest"
    /\ pipe.simulate_execution =>
          /\ simPc[1] = "idle"
          /\ Len(simHist[1]) = Len(pipe.orders)
          /\ Len(applied[1]) = Len(ReturnedFills(1))
    /\ pipe' = [pipe EXCEPT !.pc = "rebalance"]
    /\ UNCHANGED <<simVars, ledgerVars, riskVars, compVars, auditDirs, auditWritable>>

\* lines 325-333: the rebalance proposal, when asked for
ComputeRebalance(proposal) ==
    /\ pipe.pc = "rebalance"
    /\ pipe' = [pipe EXCEPT !.pc = "route",
                            !.proposal = IF pipe.pms_rebalance THEN proposal
                                         ELSE <<>>]
    /\ UNCHANGED <<simVars, ledgerVars, riskVars, compVars, auditDirs, auditWritable>>

\* lines 336-339: the proposal's orders have gone through the second simulator
RouteDone ==
    /\ pipe.pc = "route"
    /\ (pipe.simulate_execution /\ pipe.proposal # <<>>) =>
          /\ simPc[2] = "idle"
          /\ Len(simHist[2]) = Len(pipe.proposal)
    /\ pipe' = [pipe EXCEPT !.pc = "posttrade"]
    /\ UNCHANGED <<simVars, ledgerVars, riskVars, compVars, auditDirs, auditWritable>>

\* lines 342-355: compliance_engine.post_trade_check, which is
\* evaluate_orders on the final value, its audit append included
PostTradeCheck(final_value) ==
    /\ pipe.pc = "posttrade"
    /\ LET res == EvaluateResult(compCfg,
                                 <<[ticker |-> pipe.ticker, notional |-> final_value]>>,
                                 final_value)
           w   == WriteAudit(compAudit, res.decision, auditWritable)
       IN  /\ compAudit' = w.log
           /\ pipe' = [pipe EXCEPT !.pc = "done", !.post = res]
    /\ UNCHANGED <<compCfg, compIn, compOut, simVars, ledgerVars, riskVars, auditDirs,
                   auditWritable>>

InitPipeline ==
    /\ rng \in 0..(RngMod - 1)
    /\ simCfg = [i \in Sims |-> <<>>]
    /\ simPc = [i \in Sims |-> "none"]
    /\ simCur = [i \in Sims |-> NoCur]
    /\ simHist = [i \in Sims |-> <<>>]
    /\ simAudit = [i \in Sims |-> <<>>]
    /\ simTca = [i \in Sims |-> <<>>]
    /\ InitLedger
    /\ RiskOff
    /\ compCfg = <<>>
    /\ compIn = <<>>
    /\ compOut = <<>>
    /\ compAudit = <<>>
    /\ auditDirs = {}
    /\ auditWritable = TRUE
    /\ pipe \in [pc : {"compliance"}, ticker : PipeTickers,
                 simulate_execution : BOOLEAN, cost_bps : CostBps,
                 pms_rebalance : BOOLEAN, orders : {<<>>}, proposal : {<<>>},
                 post : {<<>>}]

NextPipeline ==
    \/ \E cfg \in PipeComplianceConfigs : ConstructCompliance(cfg)
    \/ \E orders \in PipePretradeOrders : EvaluateOrders(orders, ProposedNotional)
    \/ PretradeGate
    \/ \E hint \in PriceHints : FetchPrices(hint)
    \/ CheckLimits
    \/ RiskGate
    \/ \E orders \in PipeOrderLists(pipe.ticker) : GenerateSignals(orders)
    \/ \E i \in Sims : \E cfg \in PipeSimConfigs(i) : Construct(i, cfg)
    \/ \E i \in Sims : \E o \in PipeSimOrders(i) : Begin(i, o)
    \/ \E i \in Sims : Iterate(i)
    \/ \E i \in Sims : Finish(i)
    \/ \E f \in PipeFills : ApplyFill(1, f)
    \/ BacktestDone
    \/ \E proposal \in Proposals : ComputeRebalance(proposal)
    \/ RouteDone
    \/ \E fv \in FinalValues : PostTradeCheck(fv)

SpecPipeline == InitPipeline /\ [][NextPipeline]_vars

(***************************************************************************)
(* Resubmission: a caller hands execute an Order object it has executed    *)
(* before.  execute sets order.status on the object it is given, so the    *)
(* object comes back with the status of its last execution.                *)
(***************************************************************************)
ResubmitOrders ==
    IF Len(simHist[1]) < MaxOrders
    THEN {NewOrder(o, Len(simHist[1]) + 1) : o \in {x \in Orders : x.qty > 0}}
         \cup {simHist[1][k].order : k \in 1..Len(simHist[1])}
    ELSE {}

NextResubmit ==
    \/ \E cfg \in Configs : Construct(1, cfg)
    \/ \E o \in ResubmitOrders : Begin(1, o)
    \/ Iterate(1)
    \/ Finish(1)

SpecResubmit == Init /\ [][NextResubmit]_vars

(***************************************************************************)
(* One simulator that runs to completion: execute is straight-line code,   *)
(* so a call that has begun keeps taking its next step.                    *)
(***************************************************************************)
ExecuteOrders ==
    IF Len(simHist[1]) < MaxOrders
    THEN {NewOrder(o, Len(simHist[1]) + 1) : o \in Orders}
    ELSE {}

NextExecute ==
    \/ \E cfg \in Configs : Construct(1, cfg)
    \/ \E o \in ExecuteOrders : Begin(1, o)
    \/ Iterate(1)
    \/ Finish(1)

\* execute is straight-line code: a call in the loop takes its next
\* iteration, and a call past the loop returns (the step of Finish, as seen
\* on the control position)
SpecExecute ==
    /\ Init /\ [][NextExecute]_vars
    /\ WF_vars(Iterate(1))
    /\ WF_simPc(simPc[1] = "status" /\ simPc' = [simPc EXCEPT ![1] = "idle"])

(***************************************************************************)
(* The claims.                                                             *)
(***************************************************************************)
\* C1: after execute the fill quantities sum to the order's quantity Q,
\* unless the status is REJECTED, and then there is no fill.
C1_FillsSumToQty ==
    \A i \in Sims : \A k \in 1..Len(simHist[i]) :
        LET r == simHist[i][k]
        IN  IF r.order.status = "REJECTED"
            THEN r.fills = <<>>
            ELSE SumQty(r.fills) = r.order.qty

\* C2: for every Q, zero and negative included, the status is FILLED iff the
\* filled quantity equals Q, REJECTED iff the filled quantity is 0, and
\* PARTIALLY_FILLED in every other case.
C2_StatusIsFunctionOfFilled ==
    \A i \in Sims : \A k \in 1..Len(simHist[i]) :
        LET r == simHist[i][k]
            filled == SumQty(r.fills)
        IN  /\ r.order.status = "FILLED" <=> filled = r.order.qty
            /\ r.order.status = "REJECTED" <=> filled = 0
            /\ r.order.status = "PARTIALLY_FILLED"
                   <=> (filled # r.order.qty /\ filled # 0)

\* C3: two instances constructed with different seeds: whatever the
\* interleaving, the fills an instance returns are those it returns when it
\* runs alone with its own seed.
HistOrders(h) == [k \in 1..Len(h) |-> [h[k].order EXCEPT !.status = "NEW"]]

HistFills(h) == [k \in 1..Len(h) |-> h[k].fills]

C3_InstancesDoNotInterfere ==
    (/\ \A i \in Sims : simPc[i] # "none" /\ simCfg[i].seed # <<>>
     /\ simCfg[1].seed # simCfg[2].seed)
    => \A i \in Sims :
          HistFills(simHist[i]) =
              HistFills(AloneRun(simCfg[i], HistOrders(simHist[i])))

C5_FillsWithinQty ==
    /\ \A i \in Sims : simPc[i] \in {"loop", "status"} =>
          /\ SumQty(simCur[i].fills) <= simCur[i].order.qty
          /\ \A n \in 1..Len(simCur[i].fills) : simCur[i].fills[n].qty > 0
    /\ \A i \in Sims : \A k \in 1..Len(simHist[i]) :
          /\ SumQty(simHist[i][k].fills) <= simHist[i][k].order.qty
          /\ \A n \in 1..Len(simHist[i][k].fills) : simHist[i][k].fills[n].qty > 0

\* the ledger l before its k-th apply_fill, and a ticker's position in a ledger
Before(l, k) == IF k = 1 THEN NewLedger ELSE snaps[l][k - 1]

PosOf(L, ticker) ==
    IF ticker \in DOMAIN L.positions THEN L.positions[ticker] ELSE NewPosition

\* C6: from a flat position in a ticker, a BUY of n at price a followed by a
\* SELL of n at price b of that ticker adds exactly n*(b - a) to realized_pnl
\* and leaves the quantity at 0; cash is down n*a after the buy and up
\* n*(b - a) after the sell.
C6_RoundTripPnl ==
    \A l \in Ledgers : \A k \in 1..(Len(applied[l]) - 1) :
        LET buy == applied[l][k]
            sell == applied[l][k + 1]
            L0 == Before(l, k)
            L1 == snaps[l][k]
            L2 == snaps[l][k + 1]
            gain == RMul(buy.qty, RSub(sell.px, buy.px))
        IN  (/\ buy.side = "BUY" /\ sell.side = "SELL"
             /\ buy.ticker = sell.ticker /\ buy.qty = sell.qty
             /\ PosOf(L0, buy.ticker).qty = RZero)
            => /\ L2.realized_pnl = RAdd(L0.realized_pnl, gain)
               /\ PosOf(L2, buy.ticker).qty = RZero
               /\ L1.cash = RSub(L0.cash, RMul(buy.qty, buy.px))
               /\ L2.cash = RAdd(L0.cash, gain)

C6_Witness ==
    /\ Len(applied[1]) = 3
    /\ applied[1][1].ticker = "MSFT"
    /\ applied[1][2] = [ticker |-> "AAPL", side |-> "BUY", qty |-> RInt(2), px |-> RInt(10)]
    /\ applied[1][3] = [ticker |-> "AAPL", side |-> "SELL", qty |-> RInt(2), px |-> RInt(12)]
    /\ ledgers[1].realized_pnl = RAdd(snaps[1][1].realized_pnl, RInt(4))

\* C7: the same fills applied to two fresh ledgers with the same starting
\* cash give the same cash, positions and realized PnL after every prefix.
C7_ReplayReproduces ==
    /\ \A k \in 1..Len(applied[2]) :
          /\ applied[2][k] = applied[1][k]
          /\ snaps[2][k] = snaps[1][k]
    /\ \A l \in Ledgers :
          ledgers[l] = IF applied[l] = <<>> THEN NewLedger
                       ELSE snaps[l][Len(applied[l])]

C7_Witness ==
    /\ Len(applied[1]) = 3
    /\ Len(applied[2]) = 2
    /\ \E t \in LedgerTickers :
          /\ t \in DOMAIN ledgers[2].positions
          /\ ledgers[2].positions[t] # ledgers[1].positions[t]
    /\ ledgers[2].realized_pnl # RZero

\* C8: a SELL of more than the long quantity q >= 0 held is accepted: the
\* quantity becomes q minus the fill's, the average cost the fill's price,
\* cash grows by price times the whole fill, realized PnL by
\* q*(price - old average cost).
C8_OverSellOpensShort ==
    \A l \in Ledgers : \A k \in 1..Len(applied[l]) :
        LET f == applied[l][k]
            L0 == Before(l, k)
            L1 == snaps[l][k]
            p0 == PosOf(L0, f.ticker)
        IN  (f.side = "SELL" /\ RLe(RZero, p0.qty) /\ RLt(p0.qty, f.qty))
            => /\ f.ticker \in DOMAIN L1.positions
               /\ L1.positions[f.ticker].qty = RSub(p0.qty, f.qty)
               /\ L1.positions[f.ticker].avg_px = f.px
               /\ L1.cash = RAdd(L0.cash, RMul(f.px, f.qty))
               /\ L1.realized_pnl =
                      RAdd(L0.realized_pnl, RMul(p0.qty, RSub(f.px, p0.avg_px)))

C8_Witness ==
    /\ Len(applied[1]) = 2
    /\ applied[1][1] = [ticker |-> "AAPL", side |-> "BUY", qty |-> RInt(1), px |-> RInt(10)]
    /\ applied[1][2] = [ticker |-> "AAPL", side |-> "SELL", qty |-> RInt(2), px |-> RInt(12)]
    /\ ledgers[1].positions["AAPL"] = [qty |-> RInt(-1), avg_px |-> RInt(12)]
    /\ ledgers[1].realized_pnl = RInt(2)

\* C9: the decision of check_limits is block iff some breach is block, warn
\* iff none is block and some is warn, pass iff there is no breach.
C9_DecisionPrecedence ==
    riskOut # <<>> =>
        LET b == riskOut.breaches
            Some(sev) == \E k \in 1..Len(b) : b[k].severity = sev
        IN  /\ riskOut.decision = "block" <=> Some("block")
            /\ riskOut.decision = "warn" <=> (~Some("block") /\ Some("warn"))
            /\ riskOut.decision = "pass" <=> b = <<>>

C9_Witness ==
    /\ riskOut # <<>>
    /\ riskOut.decision = "block"
    /\ \E k \in 1..Len(riskOut.breaches) : riskOut.breaches[k].severity = "warn"
    /\ \E k \in 1..Len(riskOut.breaches) : riskOut.breaches[k].level = "correlation"

\* C10: with NAV > 0, a layer whose max_gross_leverage is strictly below
\* gross exposure / NAV gets a block breach named max_gross_leverage and the
\* decision is block; a layer whose limit is not exceeded gets no such breach.
GrossOf(positions) ==
    LET AbsNotional(p) == Abs(p.qty * p.price) IN SumSeq([n \in 1..Len(positions) |-> AbsNotional(positions[n])])

LayerOf(config, level) ==
    CASE level = "strategy" -> config.strategy_limits
      [] level = "portfolio" -> config.portfolio_limits
      [] level = "firm" -> config.firm_limits

C10_GrossLeverageBlocks ==
    (riskOut # <<>> /\ riskIn.nav > 0) =>
        \A level \in {"strategy", "portfolio", "firm"} :
            LET lim == LayerOf(riskIn.config, level).max_gross_leverage
                over == GrossOf(riskIn.positions) * lim[2] > lim[1] * riskIn.nav
                hit == {k \in 1..Len(riskOut.breaches) :
                           /\ riskOut.breaches[k].level = level
                           /\ riskOut.breaches[k].name = "max_gross_leverage"}
            IN  IF over
                THEN /\ riskOut.decision = "block"
                     /\ hit # {}
                     /\ \A k \in hit : riskOut.breaches[k].severity = "block"
                ELSE hit = {}

C10_Witness ==
    /\ riskOut # <<>>
    /\ riskIn.nav = 100
    /\ riskIn.config = LooseRiskConfig
    /\ GrossOf(riskIn.positions) = 300
    /\ \E k \in 1..Len(riskIn.positions) : riskIn.positions[k].qty < 0
    /\ riskOut.decision = "block"
    /\ Len(riskOut.breaches) = 2

\* the summed absolute notional of the orders whose index is in S
RECURSIVE AbsNotionalOver(_, _)
AbsNotionalOver(orders, S) ==
    IF S = {} THEN 0
    ELSE LET n == CHOOSE m \in S : TRUE
         IN  Abs(orders[n].notional) + AbsNotionalOver(orders, S \ {n})

\* C11: evaluate_orders returns block exactly when the number of distinct
\* tickers exceeds max_positions, or some ticker's summed absolute notional
\* exceeds max_single_name_pct times portfolio_value, or the sum of all
\* absolute notionals exceeds max_gross_notional; otherwise it returns pass,
\* and never warn.
C11_BlockExactlyOnBreach ==
    compOut # <<>> =>
        LET orders  == compIn.orders
            idx     == 1..Len(orders)
            tickers == {orders[n].ticker : n \in idx} \ {""}
            count   == Cardinality(tickers) > compCfg.max_positions
            single  == \E t \in tickers :
                          AbsNotionalOver(orders, {n \in idx : orders[n].ticker = t}) * 100
                              > compCfg.max_single_name_pct * compIn.portfolio_value
            gross   == AbsNotionalOver(orders, idx) > compCfg.max_gross_notional
        IN  /\ compOut.decision \in {"block", "pass"}
            /\ compOut.decision = "block" <=> (count \/ single \/ gross)

C11_Witness ==
    /\ compCfg = ComplianceConfig(5, 10, 1000)
    /\ compOut # <<>>
    /\ compIn.portfolio_value = 100
    /\ compIn.orders = <<[ticker |-> "AAPL", notional |-> 10],
                         [ticker |-> "AAPL", notional |-> 10]>>
    /\ compOut.decision = "block"
    /\ compOut.results[1].passed

\* C12: every evaluate_orders call returns exactly one RuleResult for each
\* of the rules max_positions, max_single_name_pct and max_gross_notional.
C12_OneResultPerRule ==
    compOut # <<>> =>
        \A rule \in {"max_positions", "max_single_name_pct", "max_gross_notional"} :
            Cardinality({n \in 1..Len(compOut.results) :
                            compOut.results[n].name = rule}) = 1

\* C15: an engine built with a malformed configuration (a negative
\* max_positions here) does not exist and its audit directory is not made.
C15_MalformedConfigFailsConstruction ==
    /\ compCfg # <<>> =>
          /\ compCfg.max_positions >= 0
          /\ compCfg.max_single_name_pct \in 0..100
          /\ compCfg.max_gross_notional >= 0
    /\ "logs/compliance" \in auditDirs => compCfg.max_positions >= 0

\* C13: evaluate_orders and execute return, and return what they return
\* with a working sink, whether or not the audit appends succeed: the
\* decision and rule results are those of the rules alone, every execute
\* call returns, and its fills and statuses are those of the seeded run.
C13_AuditFailureChangesNothing ==
    /\ compOut # <<>> =>
          compOut = EvaluateResult(compCfg, compIn.orders, compIn.portfolio_value)
    /\ \A i \in Sims : Len(simHist[i]) = Len(simAudit[i])
    /\ simPc[1] # "none" =>
          simHist[1] = AloneRun(simCfg[1], HistOrders(simHist[1]))

C13_Witness ==
    /\ simAudit[1] = <<FALSE, TRUE>>
    /\ Len(simHist[1][1].fills) >= 2
    /\ simHist[1][2].order.status = "FILLED"
    /\ compOut # <<>>
    /\ compOut.decision = "block"
    /\ compAudit = <<>>

\* C14: execute refuses an order of zero or negative quantity at entry: no
\* such order reaches the fill loop or the status assignment, and none is
\* returned with a status.
C14_InvalidOrderRefused ==
    \A i \in Sims :
        /\ simPc[i] \in {"loop", "status"} => simCur[i].order.qty > 0
        /\ \A k \in 1..Len(simHist[i]) : simHist[i][k].order.qty > 0

\* the fills execute has emitted, returned or not, each with its order
EmittedFills ==
    {[order |-> simHist[t[1]][t[2]].order, fill |-> simHist[t[1]][t[2]].fills[t[3]]] :
        t \in {u \in Sims \X (1..MaxOrders) \X (1..(MaxPartials + 1)) :
                  /\ u[2] <= Len(simHist[u[1]])
                  /\ u[3] <= Len(simHist[u[1]][u[2]].fills)}} \cup
    {[order |-> simCur[t[1]].order, fill |-> simCur[t[1]].fills[t[2]]] :
        t \in {u \in Sims \X (1..(MaxPartials + 1)) :
                  u[2] <= Len(simCur[u[1]].fills)}}

\* C17: every fill carries the price px + px*bps/10000 for a BUY and
\* px - px*bps/10000 for a SELL (in units of 1/PxScale); with positive
\* slippage and a positive reference price it lies strictly above (BUY) or
\* below (SELL) the reference; all fills of an order carry the same price.
C17_SlippedPrice ==
    \A e \in EmittedFills :
        LET ref == e.order.px
            bps == e.fill.slippage_bps
        IN  /\ PxScale = 10000
            /\ e.order.side = "BUY" => e.fill.px = ref * 10000 + ref * bps
            /\ e.order.side = "SELL" => e.fill.px = ref * 10000 - ref * bps
            /\ (bps > 0 /\ ref > 0 /\ e.order.side = "BUY") => e.fill.px > ref * PxScale
            /\ (bps > 0 /\ ref > 0 /\ e.order.side = "SELL") => e.fill.px < ref * PxScale
            /\ \A d \in EmittedFills :
                  d.fill.order_id = e.fill.order_id /\ d.order = e.order
                      => d.fill.px = e.fill.px

C17_Witness ==
    /\ Len(simHist[1]) = 2
    /\ simHist[1][1].order.side = "BUY"
    /\ Len(simHist[1][1].fills) = 2
    /\ simHist[1][1].fills[2].px = 1000500
    /\ simHist[1][2].order.side = "SELL"
    /\ Len(simHist[1][2].fills) = 1
    /\ simHist[1][2].fills[1].px = 999500

\* C19: when the fill loop stops, nothing remains: a loop that has used up
\* its partial-fill budget emits a final fill for the remaining quantity.
C19_FinalFillForced ==
    \A i \in Sims : simPc[i] = "status" => simCur[i].remaining <= 0

\* C20: an execute call assigns order.status once, at its end, to FILLED,
\* PARTIALLY_FILLED or REJECTED, and changes no other field of the order:
\* the order is NEW and unchanged from entry through the loop, and the
\* returned order is the entered one with its status set.
C20_StatusAssignedOnce ==
    [][\A i \in Sims :
          /\ (simPc[i] = "idle" /\ simPc'[i] = "loop")
                => simCur'[i].order.status = "NEW"
          /\ (simPc[i] = "loop")
                => simCur'[i].order = simCur[i].order
          /\ (simPc[i] = "status" /\ simPc'[i] = "idle")
                => /\ Len(simHist'[i]) = Len(simHist[i]) + 1
                   /\ LET o == simHist'[i][Len(simHist'[i])].order
                      IN  /\ o.status \in {"FILLED", "PARTIALLY_FILLED", "REJECTED"}
                          /\ [o EXCEPT !.status = "NEW"] = simCur[i].order
          /\ \A k \in 1..Len(simHist[i]) :
                /\ k <= Len(simHist'[i])
                /\ simHist'[i][k] = simHist[i][k]]_vars

C20_Witness ==
    /\ Len(simHist[1]) = 2
    /\ simHist[1][1].order.status = "REJECTED"
    /\ simHist[1][2].order.status = "PARTIALLY_FILLED"
    /\ simHist[1][2].order.side = "SELL"
    /\ simPc[2] = "status"
    /\ simCur[2].order.status = "NEW"

\* C16: with NAV = 0 the gross and net leverage are 0, every per-position
\* and per-sector share of NAV is 0 (so no leverage, position, concentration
\* or sector breach arises from a non-negative limit), no factor exposure is
\* computed and check_limits returns a decision; with ADV <= 0 the
\* pre-trade expected slippage is the spread and the expected impact is 0.
C16_ZeroNavZeroAdv ==
    /\ (riskOut # <<>> /\ riskIn.nav = 0) =>
          /\ GrossLeverage(riskOut.exposure) = <<0, 1>>
          /\ NetLeverage(riskOut.exposure) = <<0, 1>>
          /\ \A n \in 1..Len(riskIn.positions) :
                OverNav(Abs(Notional(riskIn.positions[n])), riskOut.exposure.nav) = <<0, 1>>
          /\ \A n \in 1..Len(riskOut.breaches) :
                riskOut.breaches[n].name = "liquidity_buffer"
                \/ riskOut.breaches[n].level = "correlation"
          /\ riskOut.factor_exposures = <<>>
          /\ riskOut.decision \in {"pass", "warn"}
    /\ (tcaOut # <<>> /\ tcaIn.call = "pretrade" /\ tcaIn.adv <= 0) =>
          /\ tcaOut.expected_impact_bps = <<0, 1>>
          /\ tcaOut.expected_slippage_bps =
                IF tcaIn.ticker \in DOMAIN tcaIn.cfg.spread_bps_by_ticker
                THEN tcaIn.cfg.spread_bps_by_ticker[tcaIn.ticker]
                ELSE tcaIn.cfg.default_spread_bps

C16_Witness ==
    /\ riskOut # <<>>
    /\ riskIn.nav = 0
    /\ riskIn.config = DefaultRiskConfig
    /\ Len(riskIn.positions) = 2
    /\ riskIn.positions[1].sector = "TECH"
    /\ riskIn.positions[2].qty < 0
    /\ riskIn.factor_betas # <<>>
    /\ riskOut.exposure.gross = 300
    /\ riskOut.decision = "warn"

\* C18: for fills with positive quantities and an arrival price > 0,
\* arrival_slippage_bps is > 0 when a BUY's quantity-weighted average price
\* is above arrival or a SELL's below it, < 0 in the opposite cases;
\* implementation_shortfall_bps equals arrival_slippage_bps; without fills
\* the three metrics are 0 and the attribution is empty.
C18_CostSign ==
    (tcaOut # <<>> /\ tcaIn.call = "posttrade") =>
        LET fills == tcaIn.fills
            paid  == SumSeq([n \in 1..Len(fills) |-> fills[n].px * fills[n].qty])
            atArr == SumSeq([n \in 1..Len(fills) |-> tcaIn.arrival_px * fills[n].qty])
            bps   == tcaOut.arrival_slippage_bps
            worse == \/ tcaIn.side = "buy" /\ paid > atArr
                     \/ tcaIn.side = "sell" /\ paid < atArr
            better == \/ tcaIn.side = "buy" /\ paid < atArr
                      \/ tcaIn.side = "sell" /\ paid > atArr
        IN  /\ tcaOut.implementation_shortfall_bps = bps
            /\ fills # <<>> => /\ worse => bps[1] > 0 /\ bps[2] > 0
                               /\ better => bps[1] < 0 /\ bps[2] > 0
            /\ fills = <<>> => /\ bps = <<0, 1>>
                               /\ tcaOut.vwap_slippage_bps = <<0, 1>>
                               /\ tcaOut.broker_attribution = <<>>

C18_Witness ==
    /\ tcaOut # <<>>
    /\ tcaIn.call = "posttrade"
    /\ tcaIn.side = "sell"
    /\ Len(tcaIn.fills) = 2
    /\ tcaIn.fills[1].px = 101
    /\ tcaIn.fills[1].qty = 1
    /\ tcaIn.fills[2].px = 99
    /\ tcaIn.fills[2].qty = 3
    /\ tcaOut.arrival_slippage_bps = <<50, 1>>

\* C21: for the fills of an executed order, the per-venue attribution of
\* every venue that received fills is the quantity-weighted average, over
\* that venue's fills, of the signed arrival slippage of the fill's price
\* against the order's reference price.
C21_VenueAttribution ==
    \A i \in Sims : \A k \in 1..Len(simHist[i]) :
        LET r       == simHist[i][k]
            arrival == r.order.px * PxScale
            sign    == IF r.order.side = "BUY" THEN 1 ELSE -1
            idx     == 1..Len(r.fills)
            Moved(v) == SumSeq([n \in idx |->
                           IF r.fills[n].venue = v
                           THEN (r.fills[n].px - arrival) * r.fills[n].qty ELSE 0])
            Qty(v)  == SumSeq([n \in idx |->
                           IF r.fills[n].venue = v THEN r.fills[n].qty ELSE 0])
        IN  \A v \in {r.fills[n].venue : n \in idx} :
                /\ v \in DOMAIN simTca[i][k].broker_attribution
                /\ simTca[i][k].broker_attribution[v] =
                       RNorm(sign * 10000 * Moved(v), arrival * Qty(v))

\* C22: when return series are supplied, check_limits adds a warn breach
\* named pairwise_corr and a correlation flag for a pair iff the absolute
\* value of its correlation is strictly above the configured threshold (a
\* pair exactly at the threshold is not flagged), and a result whose only
\* breaches are correlation breaches has decision warn.
C22_CorrelationStrictlyAbove ==
    (riskOut # <<>> /\ riskIn.returns.given) =>
        LET pairs == riskIn.returns.pairs
            thr   == riskIn.config.correlation_threshold
            above == {n \in 1..Len(pairs) :
                         thr[1] * 100 < Abs(pairs[n].corr) * thr[2]}
            corrBreaches == {k \in 1..Len(riskOut.breaches) :
                                riskOut.breaches[k].level = "correlation"}
        IN  /\ \A n \in 1..Len(pairs) :
                  (n \in above) <=>
                      \E m \in 1..Len(riskOut.correlation_flags) :
                          riskOut.correlation_flags[m] = pairs[n]
            /\ Cardinality(corrBreaches) = Cardinality(above)
            /\ \A k \in corrBreaches :
                  /\ riskOut.breaches[k].name = "pairwise_corr"
                  /\ riskOut.breaches[k].severity = "warn"
            /\ (corrBreaches # {} /\ Cardinality(corrBreaches) = Len(riskOut.breaches))
                  => riskOut.decision = "warn"

\* C23: in a pipeline run, the simulator is built, execute is called and
\* apply_fill is called only after the compliance evaluation and the risk
\* check have both returned something other than block, and once a
\* compliance evaluation (pre- or post-trade) or the risk check has
\* returned block, no execute call and no apply_fill call follows.
C23_BlockedRunDoesNotTrade ==
    /\ []((\E i \in Sims : simPc[i] # "none") \/ (\E l \in Ledgers : applied[l] # <<>>)
          => /\ compOut # <<>> /\ compOut.decision # "block"
             /\ riskOut # <<>> /\ riskOut.decision # "block")
    /\ [][(\/ compOut # <<>> /\ compOut.decision = "block"
           \/ riskOut # <<>> /\ riskOut.decision = "block"
           \/ pipe.post # <<>> /\ pipe.post.decision = "block")
          => (simPc' = simPc /\ simHist' = simHist /\ applied' = applied)]_vars

C23_Witness ==
    /\ pipe.pc = "returned"
    /\ pipe.simulate_execution
    /\ compOut # <<>>
    /\ compOut.decision = "pass"
    /\ riskOut # <<>>
    /\ riskOut.decision = "block"
    /\ simPc[1] = "none"
    /\ applied[1] = <<>>

\* C24: in the default risk configuration every limit of the strategy layer
\* is at least as tight as the portfolio layer's and the portfolio layer's at
\* least as tight as the firm layer's, and for every position list and every
\* NAV > 0 the breaches nest: a rule has at least as many breaches at the
\* strategy layer as at the portfolio layer, and at least as many there as
\* at the firm layer.
C24_LayersNest ==
    LET s == DefaultRiskConfig.strategy_limits
        p == DefaultRiskConfig.portfolio_limits
        f == DefaultRiskConfig.firm_limits
        Looser(a, b) ==
            /\ RLe(a.max_position_pct, b.max_position_pct)
            /\ RLe(a.max_gross_leverage, b.max_gross_leverage)
            /\ RLe(a.max_net_leverage, b.max_net_leverage)
            /\ RLe(a.concentration_limit, b.concentration_limit)
            /\ RLe(b.liquidity_buffer_pct, a.liquidity_buffer_pct)
            /\ \A m \in 1..Len(b.sector_caps) : \E n \in 1..Len(a.sector_caps) :
                  /\ a.sector_caps[n][1] = b.sector_caps[m][1]
                  /\ RLe(a.sector_caps[n][2], b.sector_caps[m][2])
        Count(level, name) ==
            Cardinality({k \in 1..Len(riskOut.breaches) :
                            /\ riskOut.breaches[k].level = level
                            /\ riskOut.breaches[k].name = name})
    IN  /\ Looser(s, p)
        /\ Looser(p, f)
        /\ (riskOut # <<>> /\ riskIn.config = DefaultRiskConfig /\ riskIn.nav > 0) =>
              \A name \in {"max_gross_leverage", "max_net_leverage", "max_position_pct",
                           "concentration_limit", "sector_cap", "liquidity_buffer"} :
                  /\ Count("firm", name) <= Count("portfolio", name)
                  /\ Count("portfolio", name) <= Count("strategy", name)

C24_Witness ==
    /\ riskOut # <<>>
    /\ riskIn.config = DefaultRiskConfig
    /\ riskIn.nav = 1000
    /\ Len(riskIn.positions) = 2
    /\ Cardinality({k \in 1..Len(riskOut.breaches) :
                       riskOut.breaches[k] = Breach("firm", "max_position_pct", "block")}) = 1
    /\ Cardinality({k \in 1..Len(riskOut.breaches) :
                       riskOut.breaches[k] = Breach("portfolio", "max_position_pct", "block")}) = 2
    /\ Cardinality({k \in 1..Len(riskOut.breaches) :
                       riskOut.breaches[k] = Breach("strategy", "max_position_pct", "block")}) = 2
    /\ ~\E k \in 1..Len(riskOut.breaches) : riskOut.breaches[k].name = "liquidity_buffer"

\* C25: in every reachable ledger state, short positions included, a SELL
\* fill closes a quantity between 0 and the long quantity held in its
\* ticker; when the position is flat or short the quantity closed is 0 and
\* realized PnL is left as it was.
C25_SellClosesWithinLong ==
    \A l \in Ledgers : \A k \in 1..Len(applied[l]) :
        LET f  == applied[l][k]
            L0 == Before(l, k)
            L1 == snaps[l][k]
            p0 == PosOf(L0, f.ticker)
            closed == QtyToClose(p0, f)
        IN  f.side = "SELL" =>
                /\ RLe(RZero, closed)
                /\ RLe(closed, IF RLt(RZero, p0.qty) THEN p0.qty ELSE RZero)
                /\ RLe(p0.qty, RZero) =>
                      /\ closed = RZero
                      /\ L1.realized_pnl = L0.realized_pnl

\* the BUY quantities minus the SELL quantities of the fills of ticker t, and
\* the starting cash less what the BUY fills cost plus what the SELL fills paid
RECURSIVE NetQty(_, _)
NetQty(fs, t) ==
    IF fs = <<>> THEN RZero
    ELSE LET f == fs[Len(fs)]
             rest == NetQty(SubSeq(fs, 1, Len(fs) - 1), t)
         IN  IF f.ticker # t THEN rest
             ELSE IF f.side = "BUY" THEN RAdd(rest, f.qty) ELSE RSub(rest, f.qty)

RECURSIVE NetCash(_)
NetCash(fs) ==
    IF fs = <<>> THEN RInt(StartingCash)
    ELSE LET f == fs[Len(fs)]
             rest == NetCash(SubSeq(fs, 1, Len(fs) - 1))
         IN  IF f.side = "BUY" THEN RSub(rest, RMul(f.px, f.qty))
             ELSE RAdd(rest, RMul(f.px, f.qty))

\* C26: after any sequence of apply_fill calls, every ticker's quantity is
\* the sum of its BUY quantities minus the sum of its SELL quantities, cash
\* is the starting cash minus price*quantity over the BUY fills plus
\* price*quantity over the SELL fills, and a fill leaves the quantity and
\* the average cost of every other ticker as they were.
C26_LedgerMatchesHistory ==
    \A l \in Ledgers :
        /\ ledgers[l].cash = NetCash(applied[l])
        /\ \A t \in LedgerTickers :
              PosOf(ledgers[l], t).qty = NetQty(applied[l], t)
        /\ \A k \in 1..Len(applied[l]) :
              /\ snaps[l][k].cash = NetCash(SubSeq(applied[l], 1, k))
              /\ \A t \in LedgerTickers :
                    /\ PosOf(snaps[l][k], t).qty = NetQty(SubSeq(applied[l], 1, k), t)
                    /\ t # applied[l][k].ticker =>
                          PosOf(snaps[l][k], t) = PosOf(Before(l, k), t)

C26_Witness ==
    /\ Len(applied[1]) = 3
    /\ applied[1][1] = [ticker |-> "AAPL", side |-> "BUY", qty |-> RInt(1), px |-> RInt(10)]
    /\ applied[1][2] = [ticker |-> "MSFT", side |-> "BUY", qty |-> RInt(2), px |-> RInt(12)]
    /\ applied[1][3] = [ticker |-> "AAPL", side |-> "SELL", qty |-> RInt(2), px |-> RInt(12)]
    /\ ledgers[1].positions["AAPL"].qty = RInt(-1)
    /\ ledgers[1].positions["MSFT"] = [qty |-> RInt(2), avg_px |-> RInt(12)]
    /\ ledgers[1].cash = RInt(99990)

\* C27: an execute call on an order that an earlier execute call left
\* FILLED, PARTIALLY_FILLED or REJECTED emits no fill and leaves the status
\* as it was, so over all execute calls the fills of one order sum to at
\* most its quantity and no fill id is issued twice.
C27_TerminalIsAbsorbing ==
    \A i \in Sims :
        LET h == simHist[i]
            fs == Flatten([k \in 1..Len(h) |-> h[k].fills])
        IN  /\ \A k \in 1..Len(h) : \A m \in (k + 1)..Len(h) :
                  h[m].order.order_id = h[k].order.order_id =>
                      /\ h[m].fills = <<>>
                      /\ h[m].order.status = h[k].order.status
            /\ \A k \in 1..Len(h) :
                  SumQty(Flatten([m \in 1..Len(h) |->
                            IF h[m].order.order_id = h[k].order.order_id
                            THEN h[m].fills ELSE <<>>])) <= h[k].order.qty
            /\ \A a \in 1..Len(fs) : \A b \in 1..Len(fs) :
                  fs[a].fill_id = fs[b].fill_id => a = b

\* C28: for every reachable ledger state and every fill at price p, equity
\* with the fill's ticker marked at p is the same before and after
\* apply_fill.
C28_EquityUnchangedAtMark ==
    \A l \in Ledgers : \A k \in 1..Len(applied[l]) :
        LET f == applied[l][k]
            marks == [t \in {f.ticker} |-> f.px]
        IN  Equity(snaps[l][k], marks) = Equity(Before(l, k), marks)

\* C29: execute terminates for every order and configuration,
\* partial_fill_prob = 1 included: a call that has entered the loop returns,
\* the loop emits at most max(1, max_partials) fills (one per iteration), and
\* the fill ids are order_id-1, order_id-2, ... in emission order.
C29_ExecuteTerminates ==
    /\ [](\A i \in Sims :
            LET Bound(cfg) == IF cfg.max_partials > 1 THEN cfg.max_partials ELSE 1
                Numbered(order, fills) ==
                    \A n \in 1..Len(fills) : fills[n].fill_id = <<order.order_id, n>>
            IN  /\ simPc[i] \in {"loop", "status"} =>
                      /\ Len(simCur[i].fills) <= Bound(simCfg[i])
                      /\ Numbered(simCur[i].order, simCur[i].fills)
                /\ \A k \in 1..Len(simHist[i]) :
                      /\ Len(simHist[i][k].fills) <= Bound(simCfg[i])
                      /\ Numbered(simHist[i][k].order, simHist[i][k].fills))
    /\ \A i \in Sims : (simPc[i] = "loop") ~> (simPc[i] = "idle")

C29_Witness ==
    /\ simPc[1] = "idle"
    /\ simCfg[1].partial_fill_prob = RngMod
    /\ simCfg[1].max_partials = MaxPartials
    /\ Len(simHist[1]) = 1
    /\ Len(simHist[1][1].fills) = MaxPartials
    /\ simHist[1][1].fills[MaxPartials].fill_id = <<1, MaxPartials>>
    /\ simHist[1][1].order.status = "PARTIALLY_FILLED"

\* C30: in every reachable ledger state, short positions opened by
\* over-selling included, after a BUY fill that leaves a non-zero quantity the
\* position's average cost equals the fill price when the position was flat
\* before the fill, and otherwise lies between the previous average cost and
\* the fill price, both included.
C30_BuyAverageCost ==
    \A l \in Ledgers : \A k \in 1..Len(applied[l]) :
        LET f  == applied[l][k]
            p0 == PosOf(Before(l, k), f.ticker)
            p1 == PosOf(snaps[l][k], f.ticker)
            lo == IF RLe(p0.avg_px, f.px) THEN p0.avg_px ELSE f.px
            hi == IF RLe(p0.avg_px, f.px) THEN f.px ELSE p0.avg_px
        IN  (f.side = "BUY" /\ p1.qty # RZero) =>
                IF p0.qty = RZero
                THEN p1.avg_px = f.px
                ELSE RLe(lo, p1.avg_px) /\ RLe(p1.avg_px, hi)

============================================================================
